---- MODULE Spec2Model ----
(***************************************************************************)
(* The finalized block store of zebra-state (zebra_db/block.rs): its       *)
(* column families, the atomic write batch built by write_block, and the   *)
(* read accessors; and the block syncer of zebrad (start/sync.rs): its     *)
(* sync loop, obtain_tips, extend_tips and the download and verify tasks.  *)
(***************************************************************************)
EXTENDS Integers, Sequences, FiniteSets, Bags, TLC

\* ------------------------------------------------------------------ bounds

\* Highest block height a caller offers to write_block.
MaxHeight == 3
\* Value of the single output of a non-genesis coinbase transaction.
CoinbaseValue == 2

\* -------------------------------------------------------- program constants

\* parameters::GENESIS_PREVIOUS_BLOCK_HASH: the all-zeros hash.
GENESIS_PREVIOUS_BLOCK_HASH == 0

\* ------------------------------------------------------------ basic values

\* Option<T>: None is the empty sequence, Some(x) the one-element sequence.
None == <<>>
Some(x) == <<x>>
IsSome(o) == Len(o) = 1
Unwrap(o) == o[1]

Range(s) == {s[i] : i \in DOMAIN s}

Max(S) == CHOOSE x \in S : \A y \in S : y <= x

RECURSIVE SumSeq(_)
SumSeq(s) == IF s = <<>> THEN 0 ELSE Head(s) + SumSeq(Tail(s))

\* The names of the column families of the database.
ColumnFamilies ==
    {"block_header_by_height", "hash_by_height", "height_by_hash",
     "tx_by_loc", "hash_by_tx_loc", "tx_loc_by_hash",
     "utxo_by_out_loc", "out_loc_by_outpoint", "balance_by_address",
     "sprout_note_commitment_tree", "sapling_note_commitment_tree",
     "orchard_note_commitment_tree", "value_pool"}

\* The note commitment tree of a pool, as the number of notes appended to it;
\* NoteCommitmentTree::default() is the empty tree.
EmptyTree == [notes |-> 0]

\* ValueBalance::zero().
ZeroValueBalance == [transparent |-> 0, sprout |-> 0, sapling |-> 0, orchard |-> 0]

\* The key of the single value_pool entry.
ValuePoolKey == "value_pool"

VARIABLES
    db,         \* the committed database: column family name -> (key -> value)
    committed,  \* history: the blocks whose write_block returned Ok, in order
    last        \* history: the last call (write_block, or a step of sync) and
                \* what it returned

\* The Syncer, its collaborators, and the locals of sync() that live across
\* an await.
VARIABLES
    pc,               \* where sync() is
    state,            \* state service: the hashes of the blocks in the state
    prospective_tips, \* Syncer::prospective_tips: a set of CheckedTip
    pending_blocks,   \* Syncer::pending_blocks: a bag of tasks [hash, result]
    detached,         \* hashes of the running tasks whose handles were dropped
                      \* and whose block the verifier may still commit
    download_set,     \* obtain_tips / extend_tips: download_set
    requests,         \* FindBlocks requests of the fanout not answered yet
    known_blocks,     \* known_blocks of the FindBlocks requests in flight
    tips,             \* extend_tips: the tips taken and not extended yet
    current_tip,      \* extend_tips: the tip being extended (Option)
    hashes_left       \* request_blocks: the hashes of its Vec not handled yet

store_vars == <<db, committed>>
syncer_vars == <<pc, state, prospective_tips, pending_blocks, detached, download_set, requests, known_blocks, tips, current_tip, hashes_left>>
vars == <<db, committed, last, pc, state, prospective_tips, pending_blocks, detached, download_set, requests, known_blocks, tips, current_tip, hashes_left>>

\* ------------------------------------------------- disk_db read/write traits

\* ReadDisk::zs_get: the value stored under key, if any.
zs_get(cf, key) == IF key \in DOMAIN cf THEN Some(cf[key]) ELSE None

\* ReadDisk::zs_contains.
zs_contains(cf, key) == key \in DOMAIN cf

\* ReadDisk::zs_is_empty.
zs_is_empty(cf) == DOMAIN cf = {}

\* ReadDisk::zs_last_key_value: the entry with the greatest key (heights are
\* stored big-endian, so key order is numeric order).
zs_last_key_value(cf) ==
    IF DOMAIN cf = {} THEN None
    ELSE LET k == Max(DOMAIN cf) IN Some(<<k, cf[k]>>)

\* WriteDisk::zs_insert: stage a put in the batch (nothing is written yet).
zs_insert(batch, cf, key, value) ==
    Append(batch, [op |-> "put", cf |-> cf, key |-> key, value |-> value])

\* WriteDisk::zs_delete: stage a delete in the batch.
zs_delete(batch, cf, key) ==
    Append(batch, [op |-> "delete", cf |-> cf, key |-> key])

\* One staged operation applied to a database.
ApplyOp(d, o) ==
    IF o.op = "put"
    THEN [d EXCEPT ![o.cf] =
            [k \in DOMAIN @ \cup {o.key} |-> IF k = o.key THEN o.value ELSE @[k]]]
    ELSE [d EXCEPT ![o.cf] = [k \in DOMAIN @ \ {o.key} |-> @[k]]]

\* DiskDb::write: the whole batch is applied, in staging order, atomically.
RECURSIVE db_write(_, _)
db_write(d, batch) ==
    IF batch = <<>> THEN d ELSE db_write(ApplyOp(d, Head(batch)), Tail(batch))

\* DiskWriteBatch::new: an empty batch.
EmptyBatch == <<>>

\* A freshly created database: every column family is empty.
EmptyDb == [cf \in ColumnFamilies |-> <<>>]

\* ------------------------------------------------------------ disk formats

\* HashOrHeight.
Hash(h) == [tag |-> "Hash", v |-> h]
Height(h) == [tag |-> "Height", v |-> h]

\* TransactionLocation::from_usize / from_u64 (the index fits the u16 of the
\* disk format for every index up to Transaction::max_allocation()).
TransactionLocation(height, index) == [height |-> height, index |-> index]

\* OutputLocation::from_outpoint.
OutputLocation(tx_loc, outpoint) ==
    [transaction_location |-> tx_loc, output_index |-> outpoint.index]

\* transparent::OutPoint.
OutPoint(hash, index) == [hash |-> hash, index |-> index]

\* ------------------------------------------------ ZebraDb: read block methods

\* Transaction::max_allocation(): the greatest transaction index probed when a
\* block is read; no block has more transactions than this.
max_allocation == 3

\* ZebraDb::is_empty.
is_empty(d) == zs_is_empty(d["hash_by_height"])

\* ZebraDb::tip: the tip height and hash, if there is one.
tip(d) == zs_last_key_value(d["hash_by_height"])

\* ZebraDb::contains_height.
contains_height(d, height) == zs_contains(d["hash_by_height"], height)

\* ZebraDb::hash.
hash(d, height) == zs_get(d["hash_by_height"], height)

\* ZebraDb::contains_hash.
contains_hash(d, h) == zs_contains(d["height_by_hash"], h)

\* ZebraDb::height.
height(d, h) == zs_get(d["height_by_hash"], h)

\* resolve_height taking the value of a hash for a height.
resolve_height_without_lookup(d, hash_or_height) == Some(hash_or_height.v)

\* hash_or_height.height_or_else(|hash| self.height(hash)): a height as it
\* is, a hash through height_by_hash.
resolve_height(d, hash_or_height) ==
    IF hash_or_height.tag = "Height" THEN Some(hash_or_height.v)
    ELSE height(d, hash_or_height.v)

\* ZebraDb::block_header.
block_header(d, hash_or_height) ==
    LET h == resolve_height(d, hash_or_height) IN
    IF ~IsSome(h) THEN None
    ELSE zs_get(d["block_header_by_height"], Unwrap(h))

\* The loop of ZebraDb::block and ZebraDb::transaction_hashes_for_block: the
\* values stored in cf at (height, tx_index), (height, tx_index + 1), ... up
\* to the first missing index or max_allocation.
RECURSIVE probe_from(_, _, _)
probe_from(cf, h, tx_index) ==
    IF tx_index > max_allocation THEN <<>>
    ELSE LET v == zs_get(cf, TransactionLocation(h, tx_index)) IN
         IF IsSome(v) THEN <<Unwrap(v)>> \o probe_from(cf, h, tx_index + 1)
         ELSE <<>>

\* ZebraDb::block.
block(d, hash_or_height) ==
    LET h == resolve_height(d, hash_or_height) IN
    IF ~IsSome(h) THEN None
    ELSE LET header == block_header(d, Height(Unwrap(h))) IN
         IF ~IsSome(header) THEN None
         ELSE Some([header |-> Unwrap(header),
                    transactions |-> probe_from(d["tx_by_loc"], Unwrap(h), 0)])

\* ZebraDb::sapling_tree_by_hash_or_height.
sapling_tree_by_hash_or_height(d, hash_or_height) ==
    LET h == resolve_height(d, hash_or_height) IN
    IF ~IsSome(h) THEN None
    ELSE zs_get(d["sapling_note_commitment_tree"], Unwrap(h))

\* ZebraDb::orchard_tree_by_hash_or_height.
orchard_tree_by_hash_or_height(d, hash_or_height) ==
    LET h == resolve_height(d, hash_or_height) IN
    IF ~IsSome(h) THEN None
    ELSE zs_get(d["orchard_note_commitment_tree"], Unwrap(h))

\* ZebraDb::finalized_tip_hash: the sentinel when the database is empty.
finalized_tip_hash(d) ==
    IF IsSome(tip(d)) THEN Unwrap(tip(d))[2] ELSE GENESIS_PREVIOUS_BLOCK_HASH

\* ZebraDb::finalized_tip_height.
finalized_tip_height(d) ==
    IF IsSome(tip(d)) THEN Some(Unwrap(tip(d))[1]) ELSE None

\* ZebraDb::tip_block.
tip_block(d) ==
    IF ~IsSome(tip(d)) THEN None ELSE block(d, Height(Unwrap(tip(d))[1]))

\* ------------------------------------------ ZebraDb: read transaction methods

\* ZebraDb::transaction_location.
transaction_location(d, tx_hash) == zs_get(d["tx_loc_by_hash"], tx_hash)

\* ZebraDb::transaction_hash.
transaction_hash(d, location) == zs_get(d["hash_by_tx_loc"], location)

\* ZebraDb::transaction: the transaction and its height.
transaction(d, tx_hash) ==
    LET loc == transaction_location(d, tx_hash) IN
    IF ~IsSome(loc) THEN None
    ELSE LET tx == zs_get(d["tx_by_loc"], Unwrap(loc)) IN
         IF IsSome(tx) THEN Some(<<Unwrap(tx), Unwrap(loc).height>>) ELSE None

\* ZebraDb::transaction_hashes_for_block.
transaction_hashes_for_block(d, hash_or_height) ==
    LET h == resolve_height(d, hash_or_height) IN
    IF ~IsSome(h) THEN None
    ELSE Some(probe_from(d["hash_by_tx_loc"], Unwrap(h), 0))

\* ---------------------------------------------- ZebraDb: transparent reads

\* ZebraDb::output_location: the OutputLocation of an unspent outpoint.
output_location(d, outpoint) == zs_get(d["out_loc_by_outpoint"], outpoint)

\* ZebraDb::utxo: the unspent output an outpoint refers to.
utxo(d, outpoint) ==
    LET loc == output_location(d, outpoint) IN
    IF ~IsSome(loc) THEN None ELSE zs_get(d["utxo_by_out_loc"], Unwrap(loc))

\* ZebraDb::address_balance_location.
address_balance_location(d, address) == zs_get(d["balance_by_address"], address)

\* ZebraDb::finalized_value_pool: zero until a value pool is written.
finalized_value_pool(d) ==
    LET v == zs_get(d["value_pool"], ValuePoolKey) IN
    IF IsSome(v) THEN Unwrap(v) ELSE ZeroValueBalance

\* ------------------------------------------------------- write_block: setup

\* A set as a sequence, in some fixed order (the iteration order of a map).
RECURSIVE SeqOf(_)
SeqOf(S) == IF S = {} THEN <<>>
            ELSE LET x == CHOOSE y \in S : TRUE IN <<x>> \o SeqOf(S \ {x})

\* tx_hash_indexes: transaction hash -> its index in the block; collecting
\* into the map keeps the last index of a repeated hash.
tx_hash_indexes(verified) ==
    [h \in Range(verified.transaction_hashes) |->
        Max({i \in DOMAIN verified.transaction_hashes :
                verified.transaction_hashes[i] = h}) - 1]

\* lookup_out_loc panics unless the outpoint's transaction is in this block.
lookup_out_loc_panics(outpoint, indexes) == outpoint.hash \notin DOMAIN indexes

\* lookup_out_loc.
lookup_out_loc(h, outpoint, indexes) ==
    OutputLocation(TransactionLocation(h, indexes[outpoint.hash]), outpoint)

\* new_outputs_by_out_loc: this block's new UTXOs keyed by OutputLocation.
new_outputs_by_out_loc(verified) ==
    LET idx  == tx_hash_indexes(verified)
        locs == {lookup_out_loc(verified.height, o, idx) : o \in DOMAIN verified.new_outputs}
    IN [l \in locs |->
          LET o == CHOOSE o \in DOMAIN verified.new_outputs :
                      lookup_out_loc(verified.height, o, idx) = l
          IN verified.new_outputs[o].utxo]

\* The outpoints spent by the inputs of a transaction (a coinbase input has none).
RECURSIVE input_outpoints(_)
input_outpoints(inputs) ==
    IF inputs = <<>> THEN <<>>
    ELSE Head(inputs).outpoint \o input_outpoints(Tail(inputs))

\* The outpoints spent by the block, in transaction and input order.
RECURSIVE block_outpoints(_)
block_outpoints(transactions) ==
    IF transactions = <<>> THEN <<>>
    ELSE input_outpoints(Head(transactions).inputs) \o block_outpoints(Tail(transactions))

\* spent_out_loc that looks in this block first, and in the database only
\* for an outpoint whose transaction is not in this block.
spent_out_loc_block_first(d, verified, outpoint) ==
    IF outpoint.hash \in DOMAIN tx_hash_indexes(verified)
    THEN lookup_out_loc(verified.height, outpoint, tx_hash_indexes(verified))
    ELSE Unwrap(output_location(d, outpoint))

\* The location of a spent outpoint: the stored one, else the one in this block.
spent_out_loc(d, verified, outpoint) ==
    LET stored == output_location(d, outpoint) IN
    IF IsSome(stored) THEN Unwrap(stored)
    ELSE lookup_out_loc(verified.height, outpoint, tx_hash_indexes(verified))

\* The UTXO of a spent outpoint: the stored one, else the one created in this block.
spent_utxo(d, verified, outpoint) ==
    LET stored == utxo(d, outpoint) IN
    IF IsSome(stored) THEN Unwrap(stored)
    ELSE verified.new_outputs[outpoint].utxo

\* The expect()s of the setup: a new output whose transaction is not in the
\* block, or a spent outpoint found neither in the state nor in the block.
setup_panics(d, verified) ==
    LET idx == tx_hash_indexes(verified) IN
    \/ \E o \in DOMAIN verified.new_outputs : lookup_out_loc_panics(o, idx)
    \/ \E o \in Range(block_outpoints(verified.block.transactions)) :
          \/ ~IsSome(output_location(d, o)) /\ lookup_out_loc_panics(o, idx)
          \/ ~IsSome(utxo(d, o)) /\ o \notin DOMAIN verified.new_outputs

\* spent_utxos_by_outpoint.
spent_utxos_by_outpoint(d, verified) ==
    [o \in Range(block_outpoints(verified.block.transactions)) |->
        spent_utxo(d, verified, o)]

\* spent_utxos_by_out_loc that leaves out the outputs created in this block.
spent_utxos_by_out_loc_from_state(d, verified) ==
    LET ops == {o \in Range(block_outpoints(verified.block.transactions)) :
                   IsSome(output_location(d, o))} IN
    [l \in {spent_out_loc(d, verified, o) : o \in ops} |->
        spent_utxo(d, verified,
                   CHOOSE o \in ops : spent_out_loc(d, verified, o) = l)]

\* spent_utxos_by_out_loc.
spent_utxos_by_out_loc(d, verified) ==
    LET ops == Range(block_outpoints(verified.block.transactions)) IN
    [l \in {spent_out_loc(d, verified, o) : o \in ops} |->
        spent_utxo(d, verified,
                   CHOOSE o \in ops : spent_out_loc(d, verified, o) = l)]

\* changed_addresses: the addresses of the spent and of the new UTXOs.
changed_addresses(d, verified) ==
    {spent_utxos_by_out_loc(d, verified)[l].output.address :
        l \in DOMAIN spent_utxos_by_out_loc(d, verified)}
    \cup {verified.new_outputs[o].utxo.output.address : o \in DOMAIN verified.new_outputs}

\* address_balances: the stored balances of the changed addresses that have one.
address_balances(d, verified) ==
    [a \in {x \in changed_addresses(d, verified) : IsSome(address_balance_location(d, x))}
        |-> Unwrap(address_balance_location(d, a))]

\* ------------------------------------------------- DiskWriteBatch: staging

\* stage_transactions counting the transaction indexes from 1, not from 0.
RECURSIVE stage_transactions_from_one(_, _, _)
stage_transactions_from_one(batch, verified, i) ==
    IF i > Len(verified.block.transactions) \/ i > Len(verified.transaction_hashes)
    THEN batch
    ELSE LET tx_location == TransactionLocation(verified.height, i)
             b1 == zs_insert(batch, "tx_by_loc", tx_location,
                             verified.block.transactions[i])
             b2 == zs_insert(b1, "hash_by_tx_loc", tx_location,
                             verified.transaction_hashes[i])
             b3 == zs_insert(b2, "tx_loc_by_hash", verified.transaction_hashes[i],
                             tx_location)
         IN stage_transactions_from_one(b3, verified, i + 1)

\* stage_transactions indexing every transaction hash at the location of the
\* block's first transaction.
RECURSIVE stage_transactions_at_first_location(_, _, _)
stage_transactions_at_first_location(batch, verified, i) ==
    IF i > Len(verified.block.transactions) \/ i > Len(verified.transaction_hashes)
    THEN batch
    ELSE LET tx_location == TransactionLocation(verified.height, i - 1)
             b1 == zs_insert(batch, "tx_by_loc", tx_location,
                             verified.block.transactions[i])
             b2 == zs_insert(b1, "hash_by_tx_loc", tx_location,
                             verified.transaction_hashes[i])
             b3 == zs_insert(b2, "tx_loc_by_hash", verified.transaction_hashes[i],
                             TransactionLocation(verified.height, 0))
         IN stage_transactions_at_first_location(b3, verified, i + 1)

\* The loop of prepare_block_header_and_transaction_data_batch over
\* block.transactions.iter().zip(transaction_hashes.iter()).enumerate(),
\* from the pair at position i (1-based here, index i - 1 on disk).
RECURSIVE stage_transactions(_, _, _)
stage_transactions(batch, verified, i) ==
    IF i > Len(verified.block.transactions) \/ i > Len(verified.transaction_hashes)
    THEN batch
    ELSE LET tx_location == TransactionLocation(verified.height, i - 1)
             b1 == zs_insert(batch, "tx_by_loc", tx_location,
                             verified.block.transactions[i])
             b2 == zs_insert(b1, "hash_by_tx_loc", tx_location,
                             verified.transaction_hashes[i])
             b3 == zs_insert(b2, "tx_loc_by_hash", verified.transaction_hashes[i],
                             tx_location)
         IN stage_transactions(b3, verified, i + 1)

\* stage_header with the insert into height_by_hash left out.
stage_header_without_height_by_hash(batch, verified) ==
    LET b1 == zs_insert(batch, "block_header_by_height", verified.height,
                        verified.block.header)
    IN zs_insert(b1, "hash_by_height", verified.height, verified.hash)

\* stage_header indexing the parent's hash, not the block's, at the height.
stage_header_with_parent_hash(batch, verified) ==
    LET b1 == zs_insert(batch, "block_header_by_height", verified.height,
                        verified.block.header)
        b2 == zs_insert(b1, "hash_by_height", verified.height,
                        verified.block.header.previous_block_hash)
    IN zs_insert(b2, "height_by_hash", verified.hash, verified.height)

\* stage_header with the insert into block_header_by_height left out.
stage_header_without_header(batch, verified) ==
    LET b2 == zs_insert(batch, "hash_by_height", verified.height, verified.hash)
    IN zs_insert(b2, "height_by_hash", verified.hash, verified.height)

\* The header and the hash <-> height index staged for a block.
stage_header(batch, verified) ==
    LET b1 == zs_insert(batch, "block_header_by_height", verified.height,
                        verified.block.header)
        b2 == zs_insert(b1, "hash_by_height", verified.height, verified.hash)
    IN zs_insert(b2, "height_by_hash", verified.hash, verified.height)

\* DiskWriteBatch::prepare_block_header_and_transaction_data_batch.
prepare_block_header_and_transaction_data_batch(batch, verified) ==
    stage_transactions(stage_header(batch, verified), verified, 1)

\* is_genesis comparing the block's own hash, not its parent's, with the sentinel.
is_genesis_by_own_hash(finalized) ==
    finalized.verified.hash = GENESIS_PREVIOUS_BLOCK_HASH

\* is_genesis looking at the height of the block, not at its parent hash.
is_genesis_by_height(finalized) ==
    finalized.verified.height = 0

\* The condition of prepare_genesis_batch: the block is a genesis block.
is_genesis(finalized) ==
    finalized.verified.block.header.previous_block_hash = GENESIS_PREVIOUS_BLOCK_HASH

\* The assert_eq!s of prepare_genesis_batch: a genesis block whose trees are
\* not the empty trees panics.
genesis_panics(finalized) ==
    /\ is_genesis(finalized)
    /\ \/ finalized.treestate.note_commitment_trees.sprout # EmptyTree
       \/ finalized.treestate.note_commitment_trees.sapling # EmptyTree
       \/ finalized.treestate.note_commitment_trees.orchard # EmptyTree

\* DiskWriteBatch::prepare_genesis_batch, for a genesis block: the three note
\* commitment trees of the block, keyed by its height.
prepare_genesis_batch(batch, finalized) ==
    LET trees == finalized.treestate.note_commitment_trees
        b1 == zs_insert(batch, "sprout_note_commitment_tree",
                        finalized.verified.height, trees.sprout)
        b2 == zs_insert(b1, "sapling_note_commitment_tree",
                        finalized.verified.height, trees.sapling)
    IN zs_insert(b2, "orchard_note_commitment_tree",
                 finalized.verified.height, trees.orchard)

\* Stage a put of every entry of a map, and a delete of every key of a set.
RECURSIVE stage_puts(_, _, _, _)
stage_puts(batch, cf, map, keys) ==
    IF keys = <<>> THEN batch
    ELSE stage_puts(zs_insert(batch, cf, Head(keys), map[Head(keys)]), cf, map, Tail(keys))

RECURSIVE stage_deletes(_, _, _)
stage_deletes(batch, cf, keys) ==
    IF keys = <<>> THEN batch
    ELSE stage_deletes(zs_delete(batch, cf, Head(keys)), cf, Tail(keys))

\* The sum of the values of the UTXOs of a map that pay to an address.
value_to(map, address) ==
    SumSeq([i \in 1..Cardinality(DOMAIN map) |->
              LET u == map[SeqOf(DOMAIN map)[i]] IN
              IF u.output.address = address THEN u.output.value ELSE 0])

\* The balance of a changed address after the block: the balance before it,
\* plus what the new UTXOs pay to it, minus what the spent UTXOs held for it.
new_address_balance(verified, new_by_loc, spent_by_loc, balances, address) ==
    LET before == IF address \in DOMAIN balances THEN balances[address]
                  ELSE [balance |-> 0,
                        location |-> CHOOSE l \in DOMAIN new_by_loc :
                                        new_by_loc[l].output.address = address]
    IN [before EXCEPT !.balance =
            @ + value_to(new_by_loc, address) - value_to(spent_by_loc, address)]

\* DiskWriteBatch::prepare_transparent_transaction_batch: add the new UTXOs,
\* remove the spent UTXOs, update the balances of the changed addresses.
prepare_transparent_transaction_batch(batch, verified, new_by_loc, spent_by_outpoint, spent_by_loc, balances) ==
    LET idx == tx_hash_indexes(verified)
        new_locs == [o \in DOMAIN verified.new_outputs |->
                        lookup_out_loc(verified.height, o, idx)]
        changed == {spent_by_loc[l].output.address : l \in DOMAIN spent_by_loc}
                   \cup {new_by_loc[l].output.address : l \in DOMAIN new_by_loc}
        after == [a \in changed |->
                     new_address_balance(verified, new_by_loc, spent_by_loc, balances, a)]
        b1 == stage_puts(batch, "utxo_by_out_loc", new_by_loc, SeqOf(DOMAIN new_by_loc))
        b2 == stage_puts(b1, "out_loc_by_outpoint", new_locs, SeqOf(DOMAIN new_locs))
        b3 == stage_deletes(b2, "utxo_by_out_loc", SeqOf(DOMAIN spent_by_loc))
        b4 == stage_deletes(b3, "out_loc_by_outpoint", SeqOf(DOMAIN spent_by_outpoint))
    IN stage_puts(b4, "balance_by_address", after, SeqOf(changed))

\* DiskWriteBatch::prepare_shielded_transaction_batch: the nullifier and
\* anchor column families are not part of this model, so nothing is staged.
prepare_shielded_transaction_batch(batch, verified) == batch

\* DiskWriteBatch::prepare_trees_batch: the block's note commitment trees,
\* keyed by its height.
prepare_trees_batch(batch, finalized) ==
    LET trees == finalized.treestate.note_commitment_trees
        b1 == zs_insert(batch, "sprout_note_commitment_tree",
                        finalized.verified.height, trees.sprout)
        b2 == zs_insert(b1, "sapling_note_commitment_tree",
                        finalized.verified.height, trees.sapling)
    IN zs_insert(b2, "orchard_note_commitment_tree",
                 finalized.verified.height, trees.orchard)

\* The sum of the values of the UTXOs of a map.
total_value(map) ==
    SumSeq([i \in 1..Cardinality(DOMAIN map) |-> map[SeqOf(DOMAIN map)[i]].output.value])

\* The change a block makes to the value pools: the transparent pool gains the
\* new outputs and loses the spent ones, the sapling pool loses the sapling
\* value balance of every transaction.
chain_value_pool_change(verified, spent_by_outpoint) ==
    LET txs == verified.block.transactions IN
    [transparent |-> total_value([o \in DOMAIN verified.new_outputs |->
                                     verified.new_outputs[o].utxo])
                     - total_value(spent_by_outpoint),
     sprout |-> 0,
     sapling |-> 0 - SumSeq([i \in DOMAIN txs |-> txs[i].sapling_value_balance]),
     orchard |-> 0]

\* ValueBalance::add_chain_value_pool_change: the pools after the change.
add_chain_value_pool_change(value_pool, change) ==
    [transparent |-> value_pool.transparent + change.transparent,
     sprout |-> value_pool.sprout + change.sprout,
     sapling |-> value_pool.sapling + change.sapling,
     orchard |-> value_pool.orchard + change.orchard]

\* A ValueBalance<NonNegative> holds no negative component.
is_non_negative(value_pool) ==
    /\ value_pool.transparent >= 0
    /\ value_pool.sprout >= 0
    /\ value_pool.sapling >= 0
    /\ value_pool.orchard >= 0

\* DiskWriteBatch::prepare_chain_value_pools_batch fails when a pool would
\* become negative.
value_pools_fail(verified, spent_by_outpoint, value_pool) ==
    ~is_non_negative(add_chain_value_pool_change(
        value_pool, chain_value_pool_change(verified, spent_by_outpoint)))

\* DiskWriteBatch::prepare_chain_value_pools_batch.
prepare_chain_value_pools_batch(batch, verified, spent_by_outpoint, value_pool) ==
    zs_insert(batch, "value_pool", ValuePoolKey,
              add_chain_value_pool_change(
                  value_pool, chain_value_pool_change(verified, spent_by_outpoint)))

\* prepare_block_batch that stages the new value pool without looking at the
\* result of prepare_chain_value_pools_batch.
prepare_block_batch_ignoring_value_pool_error(d, finalized, new_by_loc, spent_by_outpoint, spent_by_loc, balances, value_pool) ==
    LET verified == finalized.verified
        b1 == prepare_block_header_and_transaction_data_batch(EmptyBatch, verified)
    IN IF is_genesis(finalized)
       THEN IF genesis_panics(finalized)
            THEN [status |-> "Panic", batch |-> b1]
            ELSE [status |-> "Ok", batch |-> prepare_genesis_batch(b1, finalized)]
       ELSE LET b2 == prepare_transparent_transaction_batch(
                          b1, verified, new_by_loc, spent_by_outpoint, spent_by_loc,
                          balances)
                b3 == prepare_shielded_transaction_batch(b2, verified)
                b4 == prepare_trees_batch(b3, finalized)
            IN [status |-> "Ok",
                batch |-> prepare_chain_value_pools_batch(
                              b4, verified, spent_by_outpoint, value_pool)]

\* DiskWriteBatch::prepare_block_batch: the staged batch and whether staging
\* returned Ok, returned an error, or panicked.
prepare_block_batch(d, finalized, new_by_loc, spent_by_outpoint, spent_by_loc, balances, value_pool) ==
    LET verified == finalized.verified
        b1 == prepare_block_header_and_transaction_data_batch(EmptyBatch, verified)
    IN IF is_genesis(finalized)
       THEN IF genesis_panics(finalized)
            THEN [status |-> "Panic", batch |-> b1]
            ELSE [status |-> "Ok", batch |-> prepare_genesis_batch(b1, finalized)]
       ELSE LET b2 == prepare_transparent_transaction_batch(
                          b1, verified, new_by_loc, spent_by_outpoint, spent_by_loc,
                          balances)
                b3 == prepare_shielded_transaction_batch(b2, verified)
                b4 == prepare_trees_batch(b3, finalized)
            IN IF value_pools_fail(verified, spent_by_outpoint, value_pool)
               THEN [status |-> "Err", batch |-> b4]
               ELSE [status |-> "Ok",
                     batch |-> prepare_chain_value_pools_batch(
                                   b4, verified, spent_by_outpoint, value_pool)]

\* write_block that writes the batch whatever prepare_block_batch returned.
write_block_ignoring_staging_error(d, finalized, disk_ok) ==
    IF setup_panics(d, finalized.verified)
    THEN [status |-> "Panic", staged |-> "Panic", db |-> d]
    ELSE LET verified == finalized.verified
             staged == prepare_block_batch(
                           d, finalized,
                           new_outputs_by_out_loc(verified),
                           spent_utxos_by_outpoint(d, verified),
                           spent_utxos_by_out_loc(d, verified),
                           address_balances(d, verified),
                           finalized_value_pool(d))
         IN IF ~disk_ok
            THEN [status |-> "Err", staged |-> staged.status, db |-> d]
            ELSE [status |-> IF staged.status = "Ok" THEN "Ok" ELSE "Err",
                  staged |-> staged.status, hash |-> verified.hash,
                  db |-> db_write(d, staged.batch)]

\* ZebraDb::write_block: the result of the call (status), what
\* prepare_block_batch returned (staged), and the database after the call.
\* disk_ok is whether DiskDb::write succeeds. The batch is written only when
\* staging returned Ok; an error or a panic leaves the database as it was.
write_block(d, finalized, disk_ok) ==
    IF setup_panics(d, finalized.verified)
    THEN [status |-> "Panic", staged |-> "Panic", db |-> d]
    ELSE LET verified == finalized.verified
             staged == prepare_block_batch(
                           d, finalized,
                           new_outputs_by_out_loc(verified),
                           spent_utxos_by_outpoint(d, verified),
                           spent_utxos_by_out_loc(d, verified),
                           address_balances(d, verified),
                           finalized_value_pool(d))
         IN IF staged.status # "Ok"
            THEN [status |-> staged.status, staged |-> staged.status, db |-> d]
            ELSE IF ~disk_ok
            THEN [status |-> "Err", staged |-> "Ok", db |-> d]
            ELSE [status |-> "Ok", staged |-> "Ok", hash |-> verified.hash,
                  db |-> db_write(d, staged.batch)]

\* ------------------------------------------------- the caller of write_block

\* The shapes of block a caller offers: a coinbase transaction alone, or
\* followed by a transparent spend, by two chained spends (the second spends
\* the output of the first), by a shielding or by an unshielding transaction.
Shapes == <<"coinbase", "spend", "chain", "shield", "unshield">>

\* The addresses a coinbase transaction pays to.
Miners == <<"a1", "a2">>

\* transaction::Transaction::hash: a digest of the transaction, which its
\* nonce makes unique.
tx_hash(tx) == tx.nonce + 1

\* block::Header::hash: a digest of the header, which its nonce makes unique,
\* and which is never the all-zeros hash.
block_hash(header) == header.nonce + 1

\* The nonce of the block of a shape and miner at a height.
block_nonce(h, shape, miner) ==
    (h * Len(Shapes) + (shape - 1)) * Len(Miners) + (miner - 1)

\* The nonce of the transaction at an index (from 0) of a block.
tx_nonce(bn, index) == bn * (max_allocation + 1) + index

\* A coinbase transaction: one input without an outpoint, one output; the
\* output of the genesis coinbase has no value.
CoinbaseTx(h, to, nonce) ==
    [nonce |-> nonce,
     inputs |-> <<[outpoint |-> None]>>,
     outputs |-> <<[value |-> IF h = 0 THEN 0 ELSE CoinbaseValue, address |-> to]>>,
     sapling_value_balance |-> 0,
     sapling_notes |-> 0]

\* A transparent transaction spending one outpoint of value v to an address.
SpendTx(outpoint, v, to, nonce) ==
    [nonce |-> nonce,
     inputs |-> <<[outpoint |-> Some(outpoint)]>>,
     outputs |-> <<[value |-> v, address |-> to]>>,
     sapling_value_balance |-> 0,
     sapling_notes |-> 0]

\* A transaction moving the value v of one outpoint into the sapling pool.
ShieldTx(outpoint, v, nonce) ==
    [nonce |-> nonce,
     inputs |-> <<[outpoint |-> Some(outpoint)]>>,
     outputs |-> <<>>,
     sapling_value_balance |-> 0 - v,
     sapling_notes |-> 1]

\* A transaction moving one unit out of the sapling pool to an address.
UnshieldTx(to, nonce) ==
    [nonce |-> nonce,
     inputs |-> <<>>,
     outputs |-> <<[value |-> 1, address |-> to]>>,
     sapling_value_balance |-> 1,
     sapling_notes |-> 0]

\* The transactions of a block of a shape at height h, given the database the
\* block extends: a spend takes an unspent output of the database.
Transactions(d, h, shape, miner, bn) ==
    LET cb == CoinbaseTx(h, Miners[miner], tx_nonce(bn, 0))
        other == Miners[(miner % Len(Miners)) + 1]
        o == CHOOSE x \in DOMAIN d["out_loc_by_outpoint"] : TRUE
        v == Unwrap(utxo(d, o)).output.value
        t1 == SpendTx(o, v, Miners[miner], tx_nonce(bn, 1))
    IN CASE Shapes[shape] = "coinbase" -> <<cb>>
         [] Shapes[shape] = "spend" -> <<cb, t1>>
         [] Shapes[shape] = "chain" ->
                <<cb, t1, SpendTx(OutPoint(tx_hash(t1), 0), v, other, tx_nonce(bn, 2))>>
         [] Shapes[shape] = "shield" -> <<cb, ShieldTx(o, v, tx_nonce(bn, 1))>>
         [] Shapes[shape] = "unshield" -> <<cb, UnshieldTx(other, tx_nonce(bn, 1))>>

\* SemanticallyVerifiedBlock::new_outputs: every output of every transaction
\* of the block, by outpoint.
NewOutputs(transactions, h) ==
    LET points == UNION {{<<i, j>> : j \in DOMAIN transactions[i].outputs} :
                            i \in DOMAIN transactions}
    IN [o \in {OutPoint(tx_hash(transactions[p[1]]), p[2] - 1) : p \in points} |->
          LET p == CHOOSE q \in points :
                      OutPoint(tx_hash(transactions[q[1]]), q[2] - 1) = o
          IN [utxo |-> [output |-> transactions[p[1]].outputs[p[2]],
                        height |-> h,
                        from_coinbase |-> p[1] = 1],
              tx_index_in_block |-> p[1] - 1]]

\* The note commitment trees of the tip of the database (empty trees when the
\* database is empty).
TipTrees(d) ==
    LET t == tip(d) IN
    IF ~IsSome(t)
    THEN [sprout |-> EmptyTree, sapling |-> EmptyTree, orchard |-> EmptyTree]
    ELSE [sprout |-> d["sprout_note_commitment_tree"][Unwrap(t)[1]],
          sapling |-> d["sapling_note_commitment_tree"][Unwrap(t)[1]],
          orchard |-> d["orchard_note_commitment_tree"][Unwrap(t)[1]]]

\* The SemanticallyVerifiedBlockWithTrees of a block with the given parent
\* hash, height and transactions: its hashes, new outputs and precomputed trees.
Finalized(d, previous_block_hash, h, bn, transactions) ==
    LET header == [previous_block_hash |-> previous_block_hash,
                   merkle_root |-> [i \in DOMAIN transactions |-> tx_hash(transactions[i])],
                   nonce |-> bn]
        before == TipTrees(d)
    IN [verified |->
          [block |-> [header |-> header, transactions |-> transactions],
           hash |-> block_hash(header),
           height |-> h,
           transaction_hashes |-> [i \in DOMAIN transactions |-> tx_hash(transactions[i])],
           new_outputs |-> NewOutputs(transactions, h)],
        treestate |->
          [note_commitment_trees |->
             [before EXCEPT !.sapling.notes =
                 @ + SumSeq([i \in DOMAIN transactions |-> transactions[i].sapling_notes])]]]

\* The height of the next block of the chain: tip height + 1, or 0.
NextHeight(d) == IF IsSome(tip(d)) THEN Unwrap(tip(d))[1] + 1 ELSE 0

\* The shapes a verified block can have on top of the database: the genesis
\* block is a coinbase transaction alone, and a block spends a transparent
\* output only if the database has an unspent one.
PossibleShapes(d) ==
    {s \in DOMAIN Shapes :
        /\ is_empty(d) => Shapes[s] = "coinbase"
        /\ Shapes[s] \in {"spend", "chain", "shield"} => DOMAIN d["out_loc_by_outpoint"] # {}}

\* The miners of the blocks offered at a height: any for the first two
\* heights, one for each later height.
PossibleMiners(h) ==
    IF h <= 1 THEN DOMAIN Miners ELSE {(h % Len(Miners)) + 1}

\* The blocks that meet the preconditions of write_block: semantically
\* verified, at tip height + 1 on top of the tip, or the genesis block on an
\* empty database.
VerifiedBlocks(d) ==
    {Finalized(d, finalized_tip_hash(d), NextHeight(d),
               block_nonce(NextHeight(d), s, m),
               Transactions(d, NextHeight(d), s, m, block_nonce(NextHeight(d), s, m))) :
        s \in PossibleShapes(d), m \in PossibleMiners(NextHeight(d))}

\* ------------------------------------------------------------------ actions

\* Number of times a caller writes a block that is already stored.
MaxRewrites == 1

\* Syncer::new, on an empty state: no tips, no tasks, sync() not started.
InitSyncer ==
    /\ pc = "request_genesis"
    /\ state = {}
    /\ prospective_tips = {}
    /\ pending_blocks = EmptyBag
    /\ detached = {}
    /\ download_set = {}
    /\ requests = 0
    /\ known_blocks = <<>>
    /\ tips = {}
    /\ current_tip = None
    /\ hashes_left = <<>>

Init ==
    /\ db = EmptyDb
    /\ committed = <<>>
    /\ last = [call |-> "none"]
    /\ InitSyncer

\* The block is already stored: its hash is indexed at its height.
IsStored(d, finalized) ==
    hash(d, finalized.verified.height) = Some(finalized.verified.hash)

\* What a write_block call leaves behind.
Written(finalized, r) ==
    /\ db' = r.db
    /\ committed' = IF r.status = "Ok" THEN Append(committed, finalized) ELSE committed
    /\ last' = [call |-> "write_block", finalized |-> finalized,
                stored |-> IsStored(db, finalized),
                status |-> r.status, staged |-> r.staged]
    /\ UNCHANGED syncer_vars

\* The state service commits the next block of the chain.
WriteBlock ==
    /\ NextHeight(db) <= MaxHeight
    /\ \E finalized \in VerifiedBlocks(db), disk_ok \in BOOLEAN :
          Written(finalized, write_block(db, finalized, disk_ok))

\* A caller that does not check the preconditions calls write_block again
\* with a block that was committed before.
WriteBlockAgain ==
    /\ Len(committed) < Cardinality(DOMAIN db["hash_by_height"]) + MaxRewrites
    /\ \E i \in DOMAIN committed :
          Written(committed[i], write_block(db, committed[i], TRUE))

Next == WriteBlock

Spec == Init /\ [][Next]_vars

NextUnchecked == WriteBlock \/ WriteBlockAgain

SpecUnchecked == Init /\ [][NextUnchecked]_vars

\* --------------------------------- callers that break write_block's invariants

\* A note commitment tree that is not the empty tree.
NonEmptyTree == [notes |-> 1]

\* The note commitment trees of which at least one is not the empty tree.
NonEmptyTreeSets ==
    {[sprout |-> a, sapling |-> b, orchard |-> c] :
        a \in {EmptyTree, NonEmptyTree},
        b \in {EmptyTree, NonEmptyTree},
        c \in {EmptyTree, NonEmptyTree}}
    \ {[sprout |-> EmptyTree, sapling |-> EmptyTree, orchard |-> EmptyTree]}

\* The nonce of a block that was not verified, at a height: a nonce of no
\* verified block.
unverified_nonce(h, miner) == block_nonce(MaxHeight + 1 + h, 1, miner)

\* The outpoints the blocks committed so far have spent.
outpoints_spent_by(blocks) ==
    UNION {Range(block_outpoints(blocks[i].verified.block.transactions)) :
              i \in DOMAIN blocks}

\* Outpoints that are neither unspent in the database nor created by a block
\* whose coinbase transaction is cb: an output of a transaction that does not
\* exist, an output the coinbase transaction does not have, and the outputs
\* that were spent before.
MissingOutPoints(blocks, cb) ==
    {OutPoint(0, 0), OutPoint(tx_hash(cb), Len(cb.outputs))} \cup outpoints_spent_by(blocks)

\* Blocks on top of the tip with a transaction that spends a missing outpoint.
BlocksSpendingMissing(d, blocks) ==
    LET h == NextHeight(d) IN
    UNION {LET bn == unverified_nonce(h, m)
               cb == CoinbaseTx(h, Miners[m], tx_nonce(bn, 0))
           IN {Finalized(d, finalized_tip_hash(d), h, bn,
                         <<cb, SpendTx(o, 1, Miners[m], tx_nonce(bn, 1))>>) :
                  o \in MissingOutPoints(blocks, cb)} :
              m \in PossibleMiners(h)}

\* Genesis blocks whose supplied trees are not all empty.
GenesisBlocksWithTrees(d) ==
    UNION {LET bn == unverified_nonce(0, m)
               cb == CoinbaseTx(0, Miners[m], tx_nonce(bn, 0))
               f == Finalized(d, GENESIS_PREVIOUS_BLOCK_HASH, 0, bn, <<cb>>)
           IN {[f EXCEPT !.treestate.note_commitment_trees = trees] :
                  trees \in NonEmptyTreeSets} :
              m \in PossibleMiners(0)}

\* A caller calls write_block with a block that breaks an invariant the
\* verifier would have established.
WriteBlockUnverified ==
    /\ NextHeight(db) <= MaxHeight
    /\ \E finalized \in BlocksSpendingMissing(db, committed) \cup GenesisBlocksWithTrees(db),
          disk_ok \in BOOLEAN :
          Written(finalized, write_block(db, finalized, disk_ok))

\* Blocks on top of the tip that repeat a stored transaction with an unspent
\* output and spend that output: the outpoint is both in the database and
\* among the new outputs of the block.
BlocksRepeatingTransaction(d) ==
    LET h == NextHeight(d) IN
    UNION {LET bn == unverified_nonce(h, m)
               cb == CoinbaseTx(h, Miners[m], tx_nonce(bn, 0))
           IN {Finalized(d, finalized_tip_hash(d), h, bn,
                         <<cb, Unwrap(transaction(d, o.hash))[1],
                           SpendTx(o, Unwrap(utxo(d, o)).output.value, Miners[m],
                                   tx_nonce(bn, 2))>>) :
                  o \in {x \in DOMAIN d["out_loc_by_outpoint"] :
                            /\ IsSome(utxo(d, x))
                            /\ IsSome(transaction(d, x.hash))
                            /\ input_outpoints(Unwrap(transaction(d, x.hash))[1].inputs) = <<>>}} :
              m \in PossibleMiners(h)}

\* A caller calls write_block with a block that repeats a stored transaction.
WriteBlockRepeating ==
    /\ NextHeight(db) <= MaxHeight
    /\ \E finalized \in BlocksRepeatingTransaction(db) :
          Written(finalized, write_block(db, finalized, TRUE))

\* The note commitment trees that are all empty.
EmptyTrees == [sprout |-> EmptyTree, sapling |-> EmptyTree, orchard |-> EmptyTree]

\* Blocks whose parent hash does not fit the place they are written at: a
\* block with the pre-genesis parent hash (and empty trees) at the height
\* above the tip, or at height 1 of an empty database, and a block with
\* another parent hash at height 0 of an empty database.
BlocksWithMisplacedParent(d) ==
    LET h == IF is_empty(d) THEN 1 ELSE NextHeight(d) IN
    UNION {LET bn == unverified_nonce(h, m)
               f == Finalized(d, GENESIS_PREVIOUS_BLOCK_HASH, h, bn,
                              <<CoinbaseTx(h, Miners[m], tx_nonce(bn, 0))>>)
               b0 == unverified_nonce(0, m)
           IN {[f EXCEPT !.treestate.note_commitment_trees = EmptyTrees]}
              \cup (IF is_empty(d)
                    THEN {Finalized(d, block_hash([nonce |-> bn]), 0, b0,
                                    <<CoinbaseTx(0, Miners[m], tx_nonce(b0, 0))>>)}
                    ELSE {}) :
              m \in PossibleMiners(h)}

\* A caller calls write_block with a block whose parent hash does not fit.
WriteBlockMisplaced ==
    /\ NextHeight(db) <= MaxHeight
    /\ \E finalized \in BlocksWithMisplacedParent(db) :
          Written(finalized, write_block(db, finalized, TRUE))

NextUnverified ==
    \/ WriteBlock
    \/ WriteBlockUnverified
    \/ WriteBlockRepeating
    \/ WriteBlockMisplaced

SpecUnverified == Init /\ [][NextUnverified]_vars

\* ------------------------------------------------------ Syncer: constants

\* Height of the last block of the canonical chain the peers serve.
ChainTip == 4
\* Longest list of hashes a peer puts in one BlockHashes response.
MaxResponseLen == 3
\* FANOUT: the number of peers asked for each tip query. Scaled down from
\* checkpoint::MAX_QUEUED_BLOCKS_PER_HEIGHT.
FANOUT == 2
\* LOOKAHEAD_LIMIT: how many tasks may be pending when the tips are extended.
\* Scaled down from checkpoint::MAX_CHECKPOINT_HEIGHT_GAP * 2.
LOOKAHEAD_LIMIT == 1

\* The hashes a peer that answers anything chooses from: 1..NumHashes.
NumHashes == 3
\* The most tips extend_tips takes when its response loop is run on its own.
MaxTips == 1

\* The canonical chain: the hash of the block at height h is CanonicalChain[h + 1].
CanonicalChain == [i \in 1..(ChainTip + 1) |-> i]
CanonicalHashes == Range(CanonicalChain)
\* parameters::genesis_hash(chain).
genesis_hash == CanonicalChain[1]
\* A hash that is no block of the canonical chain: what zcashd sometimes puts
\* at the start or at the end of a response.
UnrelatedHash == Len(CanonicalChain) + 1

\* CheckedTip { tip, expected_next }.
CheckedTip(t, next) == [tip |-> t, expected_next |-> next]

\* ------------------------------------------- Syncer: the peers and the state

\* The block a peer starts after when it answers FindBlocks: the highest
\* block of known_blocks that is on its chain, else the genesis block.
BestKnown(known) ==
    LET on_chain == {known[i] : i \in DOMAIN known} \cap CanonicalHashes IN
    IF on_chain = {} THEN genesis_hash ELSE Max(on_chain)

\* The answer of a correct peer to FindBlocks { known_blocks, stop: None }:
\* the hashes after the best known block, at most n of them.
FindBlocks(known, n) ==
    LET from == BestKnown(known)
        upto == IF from + n <= Len(CanonicalChain) THEN from + n ELSE Len(CanonicalChain)
    IN [i \in 1..(upto - from) |-> CanonicalChain[from + i]]

\* What a perfect peer answers: every hash after the best known block that
\* fits in a response.
PerfectResponses(known) == {FindBlocks(known, MaxResponseLen)}

\* What any peer may answer: the hashes after the best known block, cut at
\* any length, with or without an unrelated hash at the start or at the end;
\* or an error (None).
PeerResponses(known) ==
    LET answers == {FindBlocks(known, n) : n \in 0..MaxResponseLen} IN
    answers
    \cup {<<UnrelatedHash>> \o a : a \in answers}
    \cup {a \o <<UnrelatedHash>> : a \in answers}
    \cup {<<UnrelatedHash>> \o a \o <<UnrelatedHash>> : a \in answers}

\* What a peer that does not follow the protocol may answer: any list of
\* hashes, repeated or out of order, as long as the longest answer of a
\* zcashd peer (an unrelated hash at both ends).
AnyHashes == 1..NumHashes
AnyResponses == UNION {[1..n -> AnyHashes] : n \in 0..(MaxResponseLen + 2)}

\* The answers to FindBlocks of the peers of a run: "perfect" peers, "zcashd"
\* peers, or "any" peers.
Responses(peers, known) ==
    IF peers = "perfect" THEN PerfectResponses(known)
    ELSE IF peers = "any" THEN AnyResponses
    ELSE PeerResponses(known)

\* GetBlockLocator: the hashes of the state from its tip down to genesis
\* (the genesis hash alone for an empty state).
block_locator(st) ==
    LET on_chain == st \cap CanonicalHashes IN
    IF on_chain = {} THEN <<genesis_hash>>
    ELSE [i \in 1..Max(on_chain) |-> CanonicalChain[Max(on_chain) + 1 - i]]

\* GetDepth answers Some for a hash in the state: state_contains.
state_contains(st, h) == h \in st

\* The verifier commits a block when its parent is in the state (genesis
\* has none) and the block itself is not.
CanCommit(st, h) ==
    /\ h \in CanonicalHashes
    /\ h \notin st
    /\ h = genesis_hash \/ (h - 1) \in st

\* ---------------------------------------- Syncer: handling of one response

\* The whole response, its last hash not dropped.
keep_last(hashes) == hashes

\* [rest @ .., _last] => rest
drop_last(hashes) == SubSeq(hashes, 1, Len(hashes) - 1)

\* first_unknown that is the first index whatever the state contains.
first_unknown_is_first(st, hashes) ==
    IF hashes = <<>> THEN None ELSE Some(1)

\* The index of the first hash that is not in the state, if there is one.
first_unknown(st, hashes) ==
    LET unknown == {i \in DOMAIN hashes : ~state_contains(st, hashes[i])} IN
    IF unknown = {} THEN None
    ELSE Some(CHOOSE i \in unknown : \A j \in unknown : i <= j)

\* new_tip that makes a tip of a single hash too.
new_tip_of_one(unknown_hashes) ==
    IF Len(unknown_hashes) >= 1
    THEN Some(CheckedTip(unknown_hashes[Len(unknown_hashes)],
                         unknown_hashes[Len(unknown_hashes)]))
    ELSE None

\* unknown_hashes.rchunks_exact(2).next(): the tip made of the last two hashes.
new_tip(unknown_hashes) ==
    IF Len(unknown_hashes) >= 2
    THEN Some(CheckedTip(unknown_hashes[Len(unknown_hashes) - 1],
                         unknown_hashes[Len(unknown_hashes)]))
    ELSE None

\* insert_tip that inserts the new tip whatever the download set and the
\* prospective tips hold.
insert_tip_always(p_tips, d_set, tip_found, unknown_hashes) ==
    p_tips \cup {tip_found}

\* insert_tip that keeps the tips the new hashes run over.
insert_tip_keeping(p_tips, d_set, tip_found, unknown_hashes) ==
    IF tip_found.expected_next \notin d_set THEN p_tips \cup {tip_found} ELSE p_tips

\* The prospective tips after a new tip was found: unless its expected_next
\* is in the download set already, the tips whose expected_next is among the
\* new hashes go and the new tip comes.
insert_tip(p_tips, d_set, tip_found, unknown_hashes) ==
    IF tip_found.expected_next \notin d_set
    THEN {t \in p_tips : t.expected_next \notin Range(unknown_hashes)} \cup {tip_found}
    ELSE p_tips


\* obtain_tips, for one BlockHashes response: the prospective tips and the
\* download set after it. The last hash is dropped, the hashes from the first
\* one that is not in the state are the unknown hashes, and a response that
\* leaves fewer than two of them is discarded.
obtain_tips_response(st, p_tips, d_set, hashes) ==
    LET same == [prospective_tips |-> p_tips, download_set |-> d_set] IN
    IF hashes = <<>> THEN same
    ELSE LET rest == drop_last(hashes)
             index == first_unknown(st, rest)
         IN IF ~IsSome(index) THEN same
            ELSE LET unknown_hashes == SubSeq(rest, Unwrap(index), Len(rest))
                     tip_found == new_tip(unknown_hashes)
                 IN IF ~IsSome(tip_found) THEN same
                    ELSE [prospective_tips |->
                              insert_tip(p_tips, d_set, Unwrap(tip_found), unknown_hashes),
                          download_set |-> d_set \cup Range(unknown_hashes)]

\* after_expected_next that does not retry with the second hash.
after_expected_next_first_only(extended, hashes) ==
    IF Len(hashes) >= 1 /\ hashes[1] = extended.expected_next
    THEN Some(SubSeq(hashes, 2, Len(hashes)))
    ELSE None

\* extend_tips: the hashes of a response after tip.expected_next, when the
\* first or the second hash is tip.expected_next; None for a response that is
\* ignored.
after_expected_next(extended, hashes) ==
    IF Len(hashes) >= 1 /\ hashes[1] = extended.expected_next
    THEN Some(SubSeq(hashes, 2, Len(hashes)))
    ELSE IF Len(hashes) >= 2 /\ hashes[2] = extended.expected_next
    THEN Some(SubSeq(hashes, 3, Len(hashes)))
    ELSE None

\* extend_tips, for one BlockHashes response to the query for a tip.
extend_tips_response(extended, p_tips, d_set, hashes) ==
    LET same == [prospective_tips |-> p_tips, download_set |-> d_set]
        matched == after_expected_next(extended, hashes)
    IN IF ~IsSome(matched) THEN same
       ELSE IF Unwrap(matched) = <<>> THEN same
       ELSE LET unknown_hashes == drop_last(Unwrap(matched))
                tip_found == new_tip(unknown_hashes)
            IN IF ~IsSome(tip_found) THEN same
               ELSE [prospective_tips |->
                         insert_tip(p_tips, d_set, Unwrap(tip_found), unknown_hashes),
                     download_set |-> d_set \cup Range(unknown_hashes)]

\* request_blocks: the hashes a task is spawned for, those not in the state.
request_blocks(st, hashes) == {h \in hashes : ~state_contains(st, h)}

\* The tasks request_blocks has pushed when it returns: all of them when it
\* returns Ok; when a state query or the readiness of the network fails at
\* some hash, the tasks of the hashes before it (the hashes come in the
\* iteration order of a HashSet, which is any order).
PushedTasks(st, hashes, ok) ==
    IF ok THEN {request_blocks(st, hashes)}
    ELSE {S \in SUBSET request_blocks(st, hashes) :
             S # request_blocks(st, hashes) \/ hashes \cap st # {}}

\* A download and verify task, and the tasks spawned for a set of hashes.
Task(h, result) == [hash |-> h, result |-> result]
Spawned(hashes) == SetToBag({Task(h, "running") : h \in hashes})

\* The tasks of pending_blocks that have finished, and those still running.
ReadyTasks == {t \in BagToSet(pending_blocks) : t.result # "running"}
RunningTasks == {t \in BagToSet(pending_blocks) : t.result = "running"}

\* request_genesis after the task it waited for: whatever the result, the
\* loop tests the state again.
after_genesis_task_giving_up(t) ==
    IF t.result = "Ok" THEN "request_genesis" ELSE "sync_loop"

after_genesis_task(t) == "request_genesis"

\* if self.pending_blocks.len() > LOOKAHEAD_LIMIT
too_many_pending_above_next(len) == len > LOOKAHEAD_LIMIT + 1

too_many_pending(len) == len > LOOKAHEAD_LIMIT

\* if self.obtain_tips().await.is_err() { delay_for(..).await; continue 'sync }
after_obtain_tips_propagating(result) ==
    IF result = "Ok" THEN "tips_loop" ELSE "returned"

after_obtain_tips(result) ==
    IF result = "Ok" THEN "tips_loop" ELSE "delay"

\* What sync() does with the result of a finished task in the inner loop:
\* carry on after Ok and after an error for a block that is in the state,
\* else wait and restart the sync.
after_task_ignoring_errors(st, t, carry_on) == carry_on

\* after_task that restarts the sync on every error.
after_task_restarting(st, t, carry_on) ==
    IF t.result = "Ok" THEN carry_on ELSE "delay"

after_task(st, t, carry_on) ==
    IF t.result = "Ok" THEN carry_on
    ELSE IF state_contains(st, t.hash) THEN carry_on
    ELSE "delay"


\* ------------------------------------------------------- Syncer: actions

\* The locals of obtain_tips and extend_tips, when neither is running.
NoLocals ==
    /\ download_set' = {}
    /\ requests' = 0
    /\ known_blocks' = <<>>
    /\ tips' = {}
    /\ current_tip' = None

\* sync() returns the error of a failed call.
Return(site) ==
    /\ pc' = "returned"
    /\ last' = [call |-> "sync", result |-> "Err", site |-> site]

\* request_genesis, from the test of its loop to the task it waits for.
\* A failed state query or a failed request_blocks ends sync() with the error.
RequestGenesis(Oks) ==
    /\ pc = "request_genesis"
    /\ \E ok \in Oks :
          IF ~ok
          THEN /\ Return("request_genesis")
               /\ UNCHANGED pending_blocks
          ELSE IF state_contains(state, genesis_hash)
          THEN /\ pc' = "sync_loop"
               /\ last' = [call |-> "request_genesis", result |-> "Ok"]
               /\ UNCHANGED pending_blocks
          ELSE /\ pc' = "genesis_wait"
               /\ pending_blocks' = pending_blocks (+) Spawned(request_blocks(state, {genesis_hash}))
               /\ last' = [call |-> "request_blocks", hashes |-> {genesis_hash},
                           retry |-> last.call = "genesis_task"]
    /\ UNCHANGED <<state, prospective_tips, detached, download_set, requests, known_blocks, tips, current_tip>>
    /\ UNCHANGED <<store_vars, hashes_left>>

\* request_genesis: pending_blocks.next().await yields the finished task;
\* whatever its result, the loop tests the state again.
GenesisWait ==
    /\ pc = "genesis_wait"
    /\ \E t \in ReadyTasks :
          /\ pending_blocks' = pending_blocks (-) SetToBag({t})
          /\ last' = [call |-> "genesis_task", task |-> t]
          /\ pc' = after_genesis_task(t)
    /\ UNCHANGED <<state, prospective_tips, detached, download_set, requests, known_blocks, tips, current_tip>>
    /\ UNCHANGED <<store_vars, hashes_left>>

\* A download and verify task finishes: the verifier commits the block and
\* the task yields Ok, or the task yields an error (the download failed, or
\* the verifier refused the block; it refuses a block that is in the state).
TaskCompletes(Oks) ==
    /\ \E t \in RunningTasks :
          \/ /\ CanCommit(state, t.hash)
             /\ state' = state \cup {t.hash}
             /\ detached' = detached \ {t.hash}
             /\ pending_blocks' = (pending_blocks (-) SetToBag({t})) (+) SetToBag({Task(t.hash, "Ok")})
          \/ /\ state_contains(state, t.hash) \/ FALSE \in Oks
             /\ UNCHANGED <<state, detached>>
             /\ pending_blocks' = (pending_blocks (-) SetToBag({t})) (+) SetToBag({Task(t.hash, "Err")})
    /\ UNCHANGED <<pc, last, prospective_tips, download_set, requests, known_blocks, tips, current_tip>>
    /\ UNCHANGED <<store_vars, hashes_left>>

\* A task whose handle was dropped finishes: the verifier commits its block.
\* (Such a task may as well fail or never finish: nothing reads its result.)
DetachedCompletes ==
    /\ \E h \in detached :
          /\ CanCommit(state, h)
          /\ state' = state \cup {h}
          /\ detached' = detached \ {h}
    /\ UNCHANGED <<pc, last, prospective_tips, pending_blocks, download_set, requests, known_blocks, tips, current_tip>>
    /\ UNCHANGED <<store_vars, hashes_left>>

\* self.pending_blocks = Box::pin(FuturesUnordered::new()) that keeps the
\* handles of the tasks it held.
after_wipe_keeping(tasks) == tasks

\* self.pending_blocks = Box::pin(FuturesUnordered::new()): the handles of
\* the tasks spawned before are dropped with the collection that held them.
after_wipe(tasks) == EmptyBag

\* The start of an iteration of 'sync: the finished tasks are taken and
\* logged, then the tips and the tasks of the iteration before are dropped
\* (a dropped JoinHandle leaves its task running).
SyncLoop ==
    /\ pc = "sync_loop"
    /\ prospective_tips' = {}
    /\ pending_blocks' = after_wipe(pending_blocks)
    /\ detached' = {h \in detached \cup {t.hash : t \in RunningTasks} :
                       h \in CanonicalHashes \ state}
    /\ pc' = "obtain_tips"
    /\ last' = [call |-> "sync_loop"]
    /\ UNCHANGED <<state, download_set, requests, known_blocks, tips, current_tip>>
    /\ UNCHANGED <<store_vars, hashes_left>>

\* obtain_tips, up to the fanout: the block locator of the state, then FANOUT
\* FindBlocks requests. A failed state or network service makes obtain_tips
\* return an error, and sync() waits and restarts.
ObtainTips(Oks) ==
    /\ pc = "obtain_tips"
    /\ \E ok \in Oks :
          IF ok
          THEN /\ pc' = "obtain_tips_responses"
               /\ known_blocks' = block_locator(state)
               /\ requests' = FANOUT
               /\ last' = [call |-> "FindBlocks", by |-> "obtain_tips"]
          ELSE /\ pc' = after_obtain_tips("Err")
               /\ UNCHANGED <<known_blocks, requests>>
               /\ last' = [call |-> "obtain_tips", result |-> "Err"]
    /\ download_set' = {}
    /\ UNCHANGED <<state, prospective_tips, pending_blocks, detached, tips, current_tip>>
    /\ UNCHANGED <<store_vars, hashes_left>>

\* Err(e) => tracing::debug!(?e): the error of one peer of the fanout is
\* logged and the loop goes on with the next answer.
after_peer_error_propagating(loop) == after_obtain_tips("Err")

after_peer_error(loop) == loop

\* The answers of the running obtain_tips fanout that were errors.
FailedRequests == IF last.call = "obtain_tips_response" THEN last.failed ELSE 0

\* obtain_tips: one answer of the fanout. An error of the peer is ignored; a
\* failed state query makes obtain_tips return an error.
ObtainTipsResponse(Oks, peers) ==
    /\ pc = "obtain_tips_responses"
    /\ requests > 0
    /\ \/ \E hashes \in Responses(peers, known_blocks) :
             LET after == obtain_tips_response(state, prospective_tips, download_set, hashes) IN
             /\ prospective_tips' = after.prospective_tips
             /\ download_set' = after.download_set
             /\ requests' = requests - 1
             /\ last' = [call |-> "obtain_tips_response", hashes |-> hashes,
                         failed |-> FailedRequests,
                         removed |-> prospective_tips \ after.prospective_tips]
             /\ UNCHANGED <<pc, known_blocks>>
       \/ /\ FALSE \in Oks
          /\ requests' = requests - 1
          /\ pc' = after_peer_error("obtain_tips_responses")
          /\ last' = [call |-> "obtain_tips_response", hashes |-> <<>>,
                      failed |-> FailedRequests + 1, removed |-> {}]
          /\ UNCHANGED <<known_blocks, prospective_tips, download_set>>
       \/ /\ FALSE \in Oks
          /\ pc' = after_obtain_tips("Err")
          /\ last' = [call |-> "obtain_tips", result |-> "Err"]
          /\ download_set' = {}
          /\ requests' = 0
          /\ known_blocks' = <<>>
          /\ UNCHANGED prospective_tips
    /\ UNCHANGED <<state, pending_blocks, detached, tips, current_tip>>
    /\ UNCHANGED <<store_vars, hashes_left>>

\* obtain_tips: request_blocks(download_set) after the last answer.
ObtainTipsRequestBlocks(Oks) ==
    /\ pc = "obtain_tips_responses"
    /\ requests = 0
    /\ \E ok \in Oks : \E pushed \in PushedTasks(state, download_set, ok) :
          /\ pending_blocks' = pending_blocks (+) Spawned(pushed)
          /\ pc' = after_obtain_tips(IF ok THEN "Ok" ELSE "Err")
          /\ last' = [call |-> "obtain_tips", result |-> IF ok THEN "Ok" ELSE "Err"]
    /\ NoLocals
    /\ UNCHANGED <<state, prospective_tips, detached>>
    /\ UNCHANGED <<store_vars, hashes_left>>


\* while !self.prospective_tips.is_empty(): with no tip left, the tips are
\* exhausted and sync() waits and restarts.
TipsLoop ==
    /\ pc = "tips_loop"
    /\ pc' = IF prospective_tips = {} THEN "delay" ELSE "drain"
    /\ last' = [call |-> "tips_loop", exhausted |-> prospective_tips = {}]
    /\ UNCHANGED <<state, prospective_tips, pending_blocks, detached, download_set, requests, known_blocks, tips, current_tip>>
    /\ UNCHANGED <<store_vars, hashes_left>>

\* A finished task is taken from pending_blocks and its result handled; the
\* state is asked about the block of a failed task, and a failed query ends
\* sync() with the error.
TakeTask(Oks, t, site, carry_on) ==
    /\ pending_blocks' = pending_blocks (-) SetToBag({t})
    /\ \/ /\ pc' = after_task(state, t, carry_on)
          /\ last' = [call |-> "task_result", site |-> site, task |-> t,
                      in_state |-> state_contains(state, t.hash)]
       \/ /\ t.result = "Err"
          /\ FALSE \in Oks
          /\ Return("state_contains")
    /\ UNCHANGED <<state, prospective_tips, detached, download_set, requests, known_blocks, tips, current_tip>>
    /\ UNCHANGED <<store_vars, hashes_left>>

\* The inner loop takes a task that is ready, without waiting.
DrainReady(Oks) ==
    /\ pc = "drain"
    /\ \E t \in ReadyTasks : TakeTask(Oks, t, "drain", "drain")

\* No task is ready: with more than LOOKAHEAD_LIMIT tasks pending the loop
\* waits for one, else it extends the tips.
DrainDone ==
    /\ pc = "drain"
    /\ ReadyTasks = {}
    /\ pc' = IF too_many_pending(BagCardinality(pending_blocks))
             THEN "wait_one" ELSE "extend_tips"
    /\ last' = [call |-> "drain_done"]
    /\ UNCHANGED <<state, prospective_tips, pending_blocks, detached, download_set, requests, known_blocks, tips, current_tip>>
    /\ UNCHANGED <<store_vars, hashes_left>>

\* pending_blocks.next().await: the loop waits until a task is ready and
\* takes exactly one.
WaitOne(Oks) ==
    /\ pc = "wait_one"
    /\ \E t \in ReadyTasks : TakeTask(Oks, t, "wait_one", "tips_loop")

\* std::mem::take(&mut self.prospective_tips): what is left in the field.
after_take_cloning(p_tips) == p_tips

after_take(p_tips) == {}

\* extend_tips: the tips are taken out of prospective_tips.
ExtendTips ==
    /\ pc = "extend_tips"
    /\ tips' = prospective_tips
    /\ prospective_tips' = after_take(prospective_tips)
    /\ download_set' = {}
    /\ pc' = "extend_tips_next"
    /\ last' = [call |-> "extend_tips"]
    /\ UNCHANGED <<state, pending_blocks, detached, requests, known_blocks, current_tip>>
    /\ UNCHANGED <<store_vars, hashes_left>>

\* extend_tips: the fanout for the next tip taken. A network service that is
\* not ready makes extend_tips return an error, which sync() ignores.
ExtendTipsNext(Oks) ==
    /\ pc = "extend_tips_next"
    /\ tips # {}
    /\ \E extended \in tips : \E ok \in Oks :
          IF ok
          THEN /\ tips' = tips \ {extended}
               /\ current_tip' = Some(extended)
               /\ known_blocks' = <<extended.tip>>
               /\ requests' = FANOUT
               /\ pc' = "extend_tips_responses"
               /\ last' = [call |-> "FindBlocks", by |-> "extend_tips"]
               /\ UNCHANGED download_set
          ELSE /\ NoLocals
               /\ pc' = "tips_loop"
               /\ last' = [call |-> "extend_tips", result |-> "Err"]
    /\ UNCHANGED <<state, prospective_tips, pending_blocks, detached>>
    /\ UNCHANGED <<store_vars, hashes_left>>

\* extend_tips: one answer of the fanout for the tip being extended. An
\* error of the peer is ignored.
ExtendTipsResponse(Oks, peers) ==
    /\ pc = "extend_tips_responses"
    /\ requests > 0
    /\ \/ \E hashes \in Responses(peers, known_blocks) :
             LET after == extend_tips_response(Unwrap(current_tip), prospective_tips, download_set, hashes) IN
             /\ prospective_tips' = after.prospective_tips
             /\ download_set' = after.download_set
             /\ last' = [call |-> "extend_tips_response", hashes |-> hashes,
                         removed |-> prospective_tips \ after.prospective_tips]
       \/ /\ FALSE \in Oks
          /\ last' = [call |-> "extend_tips_response", hashes |-> <<>>, removed |-> {}]
          /\ UNCHANGED <<prospective_tips, download_set>>
    /\ requests' = requests - 1
    /\ IF requests = 1
       THEN pc' = "extend_tips_next" /\ current_tip' = None /\ known_blocks' = <<>>
       ELSE UNCHANGED <<pc, current_tip, known_blocks>>
    /\ UNCHANGED <<state, pending_blocks, detached, tips>>
    /\ UNCHANGED <<store_vars, hashes_left>>

\* extend_tips: request_blocks(download_set) after the last tip. sync()
\* ignores the result of extend_tips.
ExtendTipsRequestBlocks(Oks) ==
    /\ pc = "extend_tips_next"
    /\ tips = {}
    /\ \E ok \in Oks : \E pushed \in PushedTasks(state, download_set, ok) :
          /\ pending_blocks' = pending_blocks (+) Spawned(pushed)
          /\ last' = [call |-> "extend_tips", result |-> IF ok THEN "Ok" ELSE "Err"]
    /\ pc' = "tips_loop"
    /\ NoLocals
    /\ UNCHANGED <<state, prospective_tips, detached>>
    /\ UNCHANGED <<store_vars, hashes_left>>

\* delay_for(SYNC_RESTART_TIMEOUT) has elapsed: the next iteration of 'sync.
Delay ==
    /\ pc = "delay"
    /\ pc' = "sync_loop"
    /\ last' = [call |-> "delay_for"]
    /\ UNCHANGED <<state, prospective_tips, pending_blocks, detached, download_set, requests, known_blocks, tips, current_tip>>
    /\ UNCHANGED <<store_vars, hashes_left>>

\* The syncer with peers that may answer anything a peer answers, with
\* services that may fail, and with tasks that may fail.
NextSyncer ==
    \/ RequestGenesis(BOOLEAN)
    \/ GenesisWait
    \/ TaskCompletes(BOOLEAN)
    \/ DetachedCompletes
    \/ SyncLoop
    \/ ObtainTips(BOOLEAN)
    \/ ObtainTipsResponse(BOOLEAN, "zcashd")
    \/ ObtainTipsRequestBlocks(BOOLEAN)
    \/ TipsLoop
    \/ DrainReady(BOOLEAN)
    \/ DrainDone
    \/ WaitOne(BOOLEAN)
    \/ ExtendTips
    \/ ExtendTipsNext(BOOLEAN)
    \/ ExtendTipsResponse(BOOLEAN, "zcashd")
    \/ ExtendTipsRequestBlocks(BOOLEAN)
    \/ Delay

SpecSyncer == Init /\ [][NextSyncer]_vars

\* The steps of sync() and of its tasks when no service fails and every peer
\* answers FindBlocks with the successors of the best block of the locator.
SyncerStepPerfect ==
    \/ RequestGenesis({TRUE})
    \/ GenesisWait
    \/ SyncLoop
    \/ ObtainTips({TRUE})
    \/ ObtainTipsResponse({TRUE}, "perfect")
    \/ ObtainTipsRequestBlocks({TRUE})
    \/ TipsLoop
    \/ DrainReady({TRUE})
    \/ DrainDone
    \/ WaitOne({TRUE})
    \/ ExtendTips
    \/ ExtendTipsNext({TRUE})
    \/ ExtendTipsResponse({TRUE}, "perfect")
    \/ ExtendTipsRequestBlocks({TRUE})
    \/ Delay

NextPerfect ==
    \/ SyncerStepPerfect
    \/ TaskCompletes({TRUE})
    \/ DetachedCompletes

\* The runtime polls the sync future whenever it can make progress, and runs
\* every spawned task to completion, whether its handle is kept or dropped.
SpecPerfectPeers ==
    /\ Init
    /\ [][NextPerfect]_vars
    /\ WF_vars(SyncerStepPerfect)
    /\ WF_vars(TaskCompletes({TRUE}))
    /\ WF_vars(DetachedCompletes)

\* The response loops of obtain_tips and extend_tips on their own, with peers
\* that answer anything. obtain_tips starts its loop with no tip and an empty
\* download set, whatever chain the state holds; extend_tips, which does not
\* ask the state about a response, starts with the tips it has taken, which
\* with such peers are any pairs of hashes.
AnyTips == {CheckedTip(t, next) : t \in AnyHashes, next \in AnyHashes}

InitTipResponses ==
    /\ db = EmptyDb
    /\ committed = <<>>
    /\ last = [call |-> "none"]
    /\ prospective_tips = {}
    /\ pending_blocks = EmptyBag
    /\ detached = {}
    /\ download_set = {}
    /\ current_tip = None
    /\ hashes_left = <<>>
    /\ \/ /\ pc = "obtain_tips_responses"
          /\ state \in {1..n : n \in 1..NumHashes}
          /\ requests = FANOUT
          /\ known_blocks = block_locator(state)
          /\ tips = {}
       \/ /\ pc = "extend_tips_next"
          /\ state = {genesis_hash}
          /\ requests = 0
          /\ known_blocks = <<>>
          /\ tips \in {T \in SUBSET AnyTips : Cardinality(T) \in 1..MaxTips}

NextTipResponses ==
    \/ ObtainTipsResponse(BOOLEAN, "any")
    \/ ExtendTipsNext(BOOLEAN)
    \/ ExtendTipsResponse(BOOLEAN, "any")

SpecTipResponses == InitTipResponses /\ [][NextTipResponses]_vars

\* -------------------------------------- Syncer: request_blocks, hash by hash

\* if self.state_contains(hash).await? { continue }: a task is made for a
\* hash the state does not contain.
needs_download_always(st, h) == TRUE

needs_download(st, h) == ~state_contains(st, h)

\* request_blocks returns the error of a failed service.
RequestBlocksFails ==
    /\ pc' = "request_blocks_returned"
    /\ hashes_left' = <<>>
    /\ last' = [call |-> "request_blocks", result |-> "Err"]
    /\ UNCHANGED pending_blocks

\* request_blocks: the state is asked about the next hash of the Vec; a hash
\* it contains is skipped, for any other the readiness of the network is
\* awaited next.
RequestBlocksNext(Oks) ==
    /\ pc = "request_blocks"
    /\ hashes_left # <<>>
    /\ \E ok \in Oks :
          IF ~ok THEN RequestBlocksFails
          ELSE IF needs_download(state, Head(hashes_left))
          THEN /\ pc' = "request_blocks_ready"
               /\ last' = [call |-> "state_contains", hash |-> Head(hashes_left)]
               /\ UNCHANGED <<hashes_left, pending_blocks>>
          ELSE /\ hashes_left' = Tail(hashes_left)
               /\ last' = [call |-> "request_blocks_hash", hash |-> Head(hashes_left),
                           task |-> FALSE]
               /\ UNCHANGED <<pc, pending_blocks>>
    /\ UNCHANGED <<state, prospective_tips, detached, download_set, requests, known_blocks, tips, current_tip>>
    /\ UNCHANGED store_vars

\* request_blocks: the network is ready, the block request is made and the
\* task that awaits it is spawned and pushed on pending_blocks.
RequestBlocksSpawn(Oks) ==
    /\ pc = "request_blocks_ready"
    /\ \E ok \in Oks :
          IF ~ok THEN RequestBlocksFails
          ELSE /\ pending_blocks' = pending_blocks (+) Spawned({Head(hashes_left)})
               /\ hashes_left' = Tail(hashes_left)
               /\ pc' = "request_blocks"
               /\ last' = [call |-> "request_blocks_hash", hash |-> Head(hashes_left),
                           task |-> TRUE]
    /\ UNCHANGED <<state, prospective_tips, detached, download_set, requests, known_blocks, tips, current_tip>>
    /\ UNCHANGED store_vars

\* request_blocks: the Vec is used up, Ok(()).
RequestBlocksReturns ==
    /\ pc = "request_blocks"
    /\ hashes_left = <<>>
    /\ pc' = "request_blocks_returned"
    /\ last' = [call |-> "request_blocks", result |-> "Ok"]
    /\ UNCHANGED <<hashes_left, state, prospective_tips, pending_blocks, detached, download_set, requests, known_blocks, tips, current_tip>>
    /\ UNCHANGED store_vars

\* The lists of hashes request_blocks is called with: the genesis hash, or
\* the hashes of a download set in the order the HashSet yields them.
RequestedHashes ==
    {h \in UNION {[1..n -> CanonicalHashes \cup {UnrelatedHash}] : n \in 0..MaxResponseLen} :
        \A i, j \in DOMAIN h : i # j => h[i] # h[j]}

\* request_blocks on its own: it is called with the blocks of the chain up to
\* some height in the state, and with tasks of earlier iterations, whose
\* handles were dropped, running or not.
InitRequestBlocks ==
    /\ db = EmptyDb
    /\ committed = <<>>
    /\ last = [call |-> "none"]
    /\ pc = "request_blocks"
    /\ state \in {{CanonicalChain[i] : i \in 1..n} : n \in 0..Len(CanonicalChain)}
    /\ detached \in {{}, CanonicalHashes \ state}
    /\ hashes_left \in RequestedHashes
    /\ prospective_tips = {}
    /\ pending_blocks = EmptyBag
    /\ download_set = {}
    /\ requests = 0
    /\ known_blocks = <<>>
    /\ tips = {}
    /\ current_tip = None

NextRequestBlocks ==
    \/ RequestBlocksNext(BOOLEAN)
    \/ RequestBlocksSpawn(BOOLEAN)
    \/ RequestBlocksReturns
    \/ TaskCompletes(BOOLEAN)
    \/ DetachedCompletes

SpecRequestBlocks == InitRequestBlocks /\ [][NextRequestBlocks]_vars

\* ------------------------- Syncer: request_genesis with a shared state service

\* request_genesis: the test of the while loop, a state query of its own.
RequestGenesisTest(Oks) ==
    /\ pc = "request_genesis"
    /\ \E ok \in Oks :
          IF ~ok
          THEN Return("request_genesis")
          ELSE IF state_contains(state, genesis_hash)
          THEN /\ pc' = "sync_loop"
               /\ last' = [call |-> "request_genesis", result |-> "Ok"]
          ELSE /\ pc' = "request_genesis_blocks"
               /\ last' = [call |-> "state_contains", result |-> FALSE]
    /\ UNCHANGED <<state, prospective_tips, pending_blocks, detached, download_set, requests, known_blocks, tips, current_tip>>
    /\ UNCHANGED <<store_vars, hashes_left>>

\* request_genesis: request_blocks(vec![genesis_hash]), which asks the state
\* again and spawns a task only for a hash the state does not hold.
RequestGenesisBlocks(Oks) ==
    /\ pc = "request_genesis_blocks"
    /\ \E ok \in Oks :
          IF ~ok
          THEN /\ Return("request_genesis")
               /\ UNCHANGED pending_blocks
          ELSE /\ pc' = "genesis_wait"
               /\ pending_blocks' =
                     pending_blocks (+) Spawned({h \in {genesis_hash} : needs_download(state, h)})
               /\ last' = [call |-> "request_blocks", hashes |-> {genesis_hash},
                           retry |-> FALSE]
    /\ UNCHANGED <<state, prospective_tips, detached, download_set, requests, known_blocks, tips, current_tip>>
    /\ UNCHANGED <<store_vars, hashes_left>>

\* request_genesis: pending_blocks.next().await on an empty FuturesUnordered
\* yields None, and expect("inserted a download and verify request") panics.
GenesisWaitPanics ==
    /\ pc = "genesis_wait"
    /\ pending_blocks = EmptyBag
    /\ pc' = "panicked"
    /\ last' = [call |-> "panic", site |-> "inserted a download and verify request"]
    /\ UNCHANGED <<state, prospective_tips, pending_blocks, detached, download_set, requests, known_blocks, tips, current_tip>>
    /\ UNCHANGED <<store_vars, hashes_left>>

\* Another holder of the state service (the verifier called by another task
\* of the node) commits the next block of the chain.
OtherTaskCommits ==
    /\ \E h \in CanonicalHashes :
          /\ CanCommit(state, h)
          /\ state' = state \cup {h}
          /\ detached' = detached \ {h}
    /\ UNCHANGED <<pc, last, prospective_tips, pending_blocks, download_set, requests, known_blocks, tips, current_tip>>
    /\ UNCHANGED <<store_vars, hashes_left>>

\* The syncer next to other tasks that commit to the state.
NextSharedState ==
    \/ RequestGenesisTest(BOOLEAN)
    \/ RequestGenesisBlocks(BOOLEAN)
    \/ GenesisWait
    \/ GenesisWaitPanics
    \/ OtherTaskCommits
    \/ TaskCompletes(BOOLEAN)
    \/ SyncLoop
    \/ ObtainTips(BOOLEAN)
    \/ ObtainTipsResponse(BOOLEAN, "zcashd")
    \/ ObtainTipsRequestBlocks(BOOLEAN)
    \/ TipsLoop
    \/ DrainReady(BOOLEAN)
    \/ DrainDone
    \/ WaitOne(BOOLEAN)
    \/ ExtendTips
    \/ ExtendTipsNext(BOOLEAN)
    \/ ExtendTipsResponse(BOOLEAN, "zcashd")
    \/ ExtendTipsRequestBlocks(BOOLEAN)
    \/ Delay

SpecSharedState == Init /\ [][NextSharedState]_vars

\* ------------------------------------------------------------------ claims

\* The heights and block hashes the read accessors are asked about: every
\* height and hash a caller offers, one height above them, and the sentinel.
AllHeights == 0..(MaxHeight + 1)
AllBlockHashes == 0..(block_nonce(MaxHeight + 1, Len(Shapes), Len(Miners)) + 1)

\* The height of the tip (the database is not empty).
TipHeight(d) == Unwrap(tip(d))[1]

\* The last step was a write_block call that returned Ok.
LastWriteOk == last.call = "write_block" /\ last.status = "Ok"

\* C1: hash_by_height and height_by_hash are mutual inverses: for every height
\* h in 0..tip, hash(h) is present and height(hash(h)) = h; for every stored
\* block hash x, hash(height(x)) = x; and both hold for every committed block.
C1_HashHeightInverse ==
    /\ IsSome(tip(db)) =>
          \A h \in 0..TipHeight(db) :
             /\ IsSome(hash(db, h))
             /\ height(db, Unwrap(hash(db, h))) = Some(h)
    /\ \A x \in AllBlockHashes :
          contains_hash(db, x) => hash(db, Unwrap(height(db, x))) = Some(x)
    /\ \A i \in DOMAIN committed :
          /\ hash(db, committed[i].verified.height) = Some(committed[i].verified.hash)
          /\ height(db, committed[i].verified.hash) = Some(committed[i].verified.height)

\* C1 witness: three blocks are committed, the last by the last call.
C1_Witness == LastWriteOk /\ Len(committed) = 3 /\ TipHeight(db) = 2

\* C2: a write_block call that returns Ok moves the store from Empty to
\* Populated(genesis at height 0) or from Populated(h) to Populated(h + 1), the
\* tip afterwards is the block's (height, hash); and no step lowers the tip
\* height or empties the store.
C2_TipAdvancesByOne ==
    [][/\ (last'.call = "write_block" /\ last'.status = "Ok") =>
            /\ tip(db') = Some(<<last'.finalized.verified.height,
                                 last'.finalized.verified.hash>>)
            /\ IF is_empty(db)
               THEN TipHeight(db') = 0 /\ is_genesis(last'.finalized)
               ELSE TipHeight(db') = TipHeight(db) + 1
       /\ ~is_empty(db) => ~is_empty(db') /\ TipHeight(db') >= TipHeight(db)
      ]_vars

\* C2 witness: a write on a populated store returned Ok and the tip is its block.
C2_Witness ==
    /\ LastWriteOk
    /\ last.finalized.verified.height = 2
    /\ tip(db) = Some(<<2, last.finalized.verified.hash>>)

\* C3: the stored heights are exactly 0..tip, block_header_by_height holds the
\* header of the committed block for each of them and nothing above the tip.
C3_ContiguousHeights ==
    IF is_empty(db)
    THEN /\ DOMAIN db["block_header_by_height"] = {}
         /\ DOMAIN db["height_by_hash"] = {}
         /\ committed = <<>>
    ELSE /\ DOMAIN db["hash_by_height"] = 0..TipHeight(db)
         /\ DOMAIN db["block_header_by_height"] = 0..TipHeight(db)
         /\ {db["height_by_hash"][x] : x \in DOMAIN db["height_by_hash"]} = 0..TipHeight(db)
         /\ Len(committed) = TipHeight(db) + 1
         /\ \A h \in AllHeights :
               block_header(db, Height(h)) =
                  IF h <= TipHeight(db) THEN Some(committed[h + 1].verified.block.header)
                  ELSE None

\* C3 witness: the store holds the heights 0..3.
C3_Witness == ~is_empty(db) /\ TipHeight(db) = 3 /\ Len(committed) = 4

\* C4: when prepare_block_batch returns an error, write_block returns an
\* error and the database (every column family, hence every read) is as
\* before the call.
C4_StagingErrorWritesNothing ==
    [][(last'.call = "write_block" /\ last'.staged = "Err") =>
            /\ last'.status = "Err"
            /\ db' = db
            /\ tip(db') = tip(db)
            /\ \A h \in AllHeights :
                  /\ hash(db', h) = hash(db, h)
                  /\ block(db', Height(h)) = block(db, Height(h))
            /\ ~contains_hash(db', last'.finalized.verified.hash)
      ]_vars

\* C4 witness: prepare_block_batch returned an error for a block of two
\* transactions offered on a populated store.
C4_Witness ==
    /\ last.call = "write_block"
    /\ last.staged = "Err"
    /\ Len(last.finalized.verified.block.transactions) = 2
    /\ ~is_empty(db)

\* C5: after write_block(genesis) succeeds on an empty store, the tip is
\* (0, genesis hash), block(0) is the genesis block, the value pool is zero,
\* no UTXO and no address balance is indexed, and the three note commitment
\* trees stored at height 0 are the empty trees.
C5_GenesisOnly ==
    (LastWriteOk /\ Len(committed) = 1) =>
        /\ tip(db) = Some(<<0, last.finalized.verified.hash>>)
        /\ block(db, Height(0)) = Some(last.finalized.verified.block)
        /\ finalized_value_pool(db) = ZeroValueBalance
        /\ DOMAIN db["utxo_by_out_loc"] = {}
        /\ DOMAIN db["out_loc_by_outpoint"] = {}
        /\ DOMAIN db["balance_by_address"] = {}
        /\ zs_get(db["sprout_note_commitment_tree"], 0) = Some(EmptyTree)
        /\ sapling_tree_by_hash_or_height(db, Height(0)) = Some(EmptyTree)
        /\ orchard_tree_by_hash_or_height(db, Hash(last.finalized.verified.hash))
              = Some(EmptyTree)

\* C5 witness: the genesis block, which has an output, was the only block
\* written, by the last call.
C5_Witness ==
    /\ LastWriteOk
    /\ Len(committed) = 1
    /\ is_genesis(last.finalized)
    /\ DOMAIN last.finalized.verified.new_outputs # {}

\* C6: for every stored block, block(height) is its header with exactly its
\* transactions in index order, and transaction_hashes_for_block(height) is
\* its N transaction hashes, the i-th the hash of the transaction at index i.
C6_BlockReadBack ==
    \A i \in DOMAIN committed :
        LET v == committed[i].verified
            hashes == transaction_hashes_for_block(db, Height(v.height))
        IN /\ block(db, Height(v.height)) = Some(v.block)
           /\ IsSome(hashes)
           /\ Len(Unwrap(hashes)) = Len(v.block.transactions)
           /\ \A k \in DOMAIN v.block.transactions :
                 Unwrap(hashes)[k] = tx_hash(v.block.transactions[k])

\* C6 witness: a stored block has as many transactions as a block can have
\* in this model, under a block with fewer.
C6_Witness ==
    \E i \in DOMAIN committed :
        /\ Len(committed[i].verified.block.transactions) = 3
        /\ i < Len(committed)
        /\ Len(committed[i + 1].verified.block.transactions) = 2

\* C7: transaction_hashes_for_block returns None whenever the block is not
\* found: for a hash that is not stored and for a height that is not stored.
C7_NoneWhenNotFound ==
    /\ \A x \in AllBlockHashes :
          ~contains_hash(db, x) => transaction_hashes_for_block(db, Hash(x)) = None
    /\ \A h \in AllHeights :
          ~contains_height(db, h) => transaction_hashes_for_block(db, Height(h)) = None

\* C8: for every block hash x, block(Hash(x)) = block(Height(height(x))) and
\* block_header(Hash(x)) = block_header(Height(height(x))) when x is stored,
\* where they are the committed block and header; both are None when it is not.
C8_HashAndHeightAgree ==
    /\ \A x \in AllBlockHashes :
          IF contains_hash(db, x)
          THEN /\ IsSome(block(db, Hash(x)))
               /\ block(db, Hash(x)) = block(db, Height(Unwrap(height(db, x))))
               /\ block_header(db, Hash(x)) = block_header(db, Height(Unwrap(height(db, x))))
          ELSE block(db, Hash(x)) = None /\ block_header(db, Hash(x)) = None
    /\ \A i \in DOMAIN committed :
          /\ block(db, Hash(committed[i].verified.hash)) = Some(committed[i].verified.block)
          /\ block_header(db, Hash(committed[i].verified.hash))
                = Some(committed[i].verified.block.header)

\* C8 witness: a block is stored under a hash that differs from its height,
\* and another hash is not stored.
C8_Witness ==
    /\ \E x \in AllBlockHashes :
          contains_hash(db, x) /\ Unwrap(height(db, x)) = 2 /\ IsSome(block(db, Hash(x)))
    /\ \E x \in AllBlockHashes : ~contains_hash(db, x)

\* The transaction hashes of the committed blocks.
CommittedTxHashes ==
    UNION {Range(committed[i].verified.transaction_hashes) : i \in DOMAIN committed}

\* C9: for every location in tx_by_loc, hash_by_tx_loc gives a hash t there
\* and tx_loc_by_hash gives the location back for t (and the other way
\* round), and transaction(t) is the transaction stored at the location with
\* the location's height.
C9_TxIndexesInverse ==
    /\ \A loc \in DOMAIN db["tx_by_loc"] :
          LET t == transaction_hash(db, loc) IN
          /\ IsSome(t)
          /\ transaction_location(db, Unwrap(t)) = Some(loc)
          /\ transaction(db, Unwrap(t)) = Some(<<db["tx_by_loc"][loc], loc.height>>)
    /\ \A t \in DOMAIN db["tx_loc_by_hash"] :
          /\ db["tx_loc_by_hash"][t] \in DOMAIN db["tx_by_loc"]
          /\ transaction_hash(db, db["tx_loc_by_hash"][t]) = Some(t)
    /\ \A t \in CommittedTxHashes : IsSome(transaction(db, t))

\* C9 witness: transactions are stored at index 2 of one height and at
\* another height.
C9_Witness ==
    \E loc \in DOMAIN db["tx_by_loc"] :
        /\ loc.index = 2
        /\ \E other \in DOMAIN db["tx_by_loc"] : other.height # loc.height

\* The preconditions of write_block: the block is at tip height + 1, or is
\* the genesis block and the store is empty.
MeetsPreconditions(d, finalized) ==
    IF is_empty(d) THEN is_genesis(finalized)
    ELSE finalized.verified.height = TipHeight(d) + 1

\* C10: a second write_block call for a block that is already stored does
\* not return Ok.
C10_SecondWriteRefused ==
    (last.call = "write_block" /\ last.stored) => last.status # "Ok"

\* C10, amended: the second write of a block is detectable by the caller's
\* precondition only: no block committed before meets the preconditions of
\* write_block (its height is at most the tip's, and the store is not empty).
C10_SecondWriteFailsPreconditions ==
    \A i \in DOMAIN committed :
        /\ ~MeetsPreconditions(db, committed[i])
        /\ committed[i].verified.height <= TipHeight(db)
        /\ IsStored(db, committed[i])

\* C10 witness: write_block was called for a block that was already stored.
C10_Witness ==
    /\ last.call = "write_block"
    /\ last.stored
    /\ ~MeetsPreconditions(db, last.finalized)

\* C11: every component of the stored value pool is non-negative after every
\* write_block call, and a write_block call for a block whose value pool
\* change would make a component negative returns an error and leaves the
\* database as it was.
C11_ValuePoolNonNegative ==
    [][/\ is_non_negative(finalized_value_pool(db'))
       /\ (/\ last'.call = "write_block"
           /\ ~is_genesis(last'.finalized)
           /\ ~setup_panics(db, last'.finalized.verified)
           /\ value_pools_fail(last'.finalized.verified,
                               spent_utxos_by_outpoint(db, last'.finalized.verified),
                               finalized_value_pool(db)))
          => (last'.status # "Ok" /\ db' = db)
      ]_vars

\* C11 witness: a block that takes more out of the sapling pool than the pool
\* holds was refused while the stored pools hold value.
C11_Witness ==
    /\ last.call = "write_block"
    /\ last.staged = "Err"
    /\ \E i \in DOMAIN last.finalized.verified.block.transactions :
          last.finalized.verified.block.transactions[i].sapling_value_balance > 0
    /\ finalized_value_pool(db).transparent > 0

\* The outputs created by the committed blocks after genesis, by outpoint, and
\* the outpoints the committed blocks spend.
CreatedOutputs ==
    UNION {{<<o, committed[i].verified.new_outputs[o].utxo>> :
               o \in DOMAIN committed[i].verified.new_outputs} :
           i \in {j \in DOMAIN committed : ~is_genesis(committed[j])}}
SpentOutPoints ==
    UNION {Range(block_outpoints(committed[i].verified.block.transactions)) :
           i \in DOMAIN committed}

\* The sum of the stored address balances, and of the stored UTXO values.
SumOfBalances ==
    LET cf == db["balance_by_address"] IN
    SumSeq([i \in 1..Cardinality(DOMAIN cf) |-> cf[SeqOf(DOMAIN cf)[i]].balance])
SumOfUtxos == total_value(db["utxo_by_out_loc"])

\* C12: the sum of the address balances equals the sum of the values of the
\* stored UTXOs, and the stored UTXOs are exactly the outputs the committed
\* blocks created and did not spend (an output created and spent in the same
\* block is not stored).
C12_BalancesEqualLiveUtxos ==
    /\ SumOfBalances = SumOfUtxos
    /\ DOMAIN db["out_loc_by_outpoint"] =
          {c[1] : c \in CreatedOutputs} \ SpentOutPoints
    /\ \A c \in CreatedOutputs :
          c[1] \notin SpentOutPoints => utxo(db, c[1]) = Some(c[2])
    /\ Cardinality(DOMAIN db["utxo_by_out_loc"])
          = Cardinality(DOMAIN db["out_loc_by_outpoint"])

\* C12 witness: a committed block spent an output that it created itself, and
\* UTXOs with a positive sum remain.
C12_Witness ==
    /\ LastWriteOk
    /\ \E o \in Range(block_outpoints(last.finalized.verified.block.transactions)) :
          o \in DOMAIN last.finalized.verified.new_outputs
    /\ SumOfUtxos > 0

\* The positions of sync() inside request_genesis, and those of the inner
\* loop where a finished task is taken.
GenesisPcs == {"request_genesis", "genesis_wait"}
TakePcs == {"drain", "wait_one"}

\* No task was spawned in this step: no running task appears in pending_blocks.
NoNewTask ==
    \A t \in BagToSet(pending_blocks') :
        t.result = "running" => CopiesIn(t, pending_blocks') <= CopiesIn(t, pending_blocks)

\* C13: sync() sends no FindBlocks request before the state contains the
\* genesis hash: it leaves request_genesis for the sync loop only then. While
\* the state does not contain it, request_genesis spawns a download and verify
\* task for the genesis hash, and after the task has finished, with an error
\* or not, it tests the state again and spawns the next one; nothing counts
\* the attempts.
C13_GenesisFirstAndRetried ==
    [][/\ (pc' \notin GenesisPcs \cup {"returned"}) => genesis_hash \in state'
       /\ requests' > 0 => genesis_hash \in state'
       /\ (pc = "genesis_wait" /\ pc' # pc) => pc' = "request_genesis"
       /\ (pc = "request_genesis" /\ genesis_hash \notin state /\ pc' \notin {pc, "returned"})
             => /\ pc' = "genesis_wait"
                /\ CopiesIn([hash |-> genesis_hash, result |-> "running"], pending_blocks') = 1
      ]_vars

\* C13 witness: the genesis task failed, the state does not contain the
\* genesis hash, and request_genesis has spawned another task for it.
C13_Witness ==
    /\ pc = "genesis_wait"
    /\ last.call = "request_blocks"
    /\ last.retry
    /\ genesis_hash \notin state
    /\ BagCardinality(pending_blocks) = 1

\* C14: when the inner loop takes a failed task whose block the state does
\* not contain, sync() waits for SYNC_RESTART_TIMEOUT and starts the next
\* iteration of 'sync: from there to obtain_tips no task is spawned and
\* extend_tips is not called, and when obtain_tips starts prospective_tips
\* and pending_blocks are empty.
C14_TaskErrorRestarts ==
    [][/\ (/\ pc \in TakePcs
           /\ last'.call = "task_result"
           /\ BagCardinality(pending_blocks') < BagCardinality(pending_blocks)
           /\ last'.task.result = "Err"
           /\ last'.task.hash \notin state)
          => pc' = "delay"
       /\ pc = "delay" => (pc' \in {"delay", "sync_loop"} /\ NoNewTask)
       /\ pc = "sync_loop" => (pc' \in {"sync_loop", "obtain_tips"} /\ NoNewTask)
       /\ pc' = "obtain_tips" => (prospective_tips' = {} /\ pending_blocks' = EmptyBag)
       /\ (pc = "obtain_tips" /\ requests' > 0)
          => (prospective_tips = {} /\ pending_blocks = EmptyBag)
      ]_vars

\* C14 witness: the blocking wait took a failed task whose block is not in
\* the state, while a tip and other tasks were held; sync() is waiting to
\* restart.
C14_Witness ==
    /\ pc = "delay"
    /\ last.call = "task_result"
    /\ last.site = "wait_one"
    /\ last.task.result = "Err"
    /\ ~last.in_state
    /\ prospective_tips # {}
    /\ pending_blocks # EmptyBag

\* C15: after request_genesis, pending_blocks never holds more than
\* LOOKAHEAD_LIMIT + 1 tasks, whatever the peers answer.
C15_PendingBounded ==
    pc \notin GenesisPcs => BagCardinality(pending_blocks) <= LOOKAHEAD_LIMIT + 1

\* C16: extend_tips is called only with at most LOOKAHEAD_LIMIT tasks
\* pending: while more are pending the inner loop spawns no task, each
\* blocking wait takes exactly one finished task, and the tasks in excess
\* have all been taken when extend_tips is called.
C16_ExtendOnlyBelowLimit ==
    [][/\ pc' = "extend_tips" => BagCardinality(pending_blocks') <= LOOKAHEAD_LIMIT
       /\ (pc = "extend_tips" /\ pc' # pc)
             => BagCardinality(pending_blocks) <= LOOKAHEAD_LIMIT
       /\ (pc = "wait_one" /\ pc' # pc)
             => BagCardinality(pending_blocks') = BagCardinality(pending_blocks) - 1
       /\ pc \in {"tips_loop", "drain", "wait_one"}
             => /\ NoNewTask
                /\ BagCardinality(pending_blocks') >= BagCardinality(pending_blocks) - 1
       /\ (pc = "drain" /\ pc' = "wait_one")
             => BagCardinality(pending_blocks) > LOOKAHEAD_LIMIT
      ]_vars

\* C16 witness: with LOOKAHEAD_LIMIT + 2 tasks or more pending the inner
\* loop waits for a task instead of extending the tips it holds.
C16_Witness ==
    /\ pc = "wait_one"
    /\ BagCardinality(pending_blocks) >= LOOKAHEAD_LIMIT + 2
    /\ prospective_tips # {}

\* C18: sync() never returns Ok, and it returns an error only from
\* request_genesis or when the state query about the block of a failed task
\* fails; after an error of obtain_tips it waits and restarts, and after
\* extend_tips, with an error or not, the inner loop goes on.
C18_ReturnsOnlyUnrecoverable ==
    [][/\ (pc' = "returned" /\ pc # "returned")
             => /\ last'.call = "sync"
                /\ last'.result = "Err"
                /\ \/ pc = "request_genesis" /\ last'.site = "request_genesis"
                   \/ /\ pc \in TakePcs
                      /\ last'.site = "state_contains"
                      /\ \E t \in ReadyTasks :
                            /\ t.result = "Err"
                            /\ CopiesIn(t, pending_blocks') = CopiesIn(t, pending_blocks) - 1
       /\ (pc \in {"obtain_tips", "obtain_tips_responses"} /\ pc' # pc)
             => pc' \in {"obtain_tips_responses", "tips_loop", "delay"}
       /\ (pc \in {"obtain_tips", "obtain_tips_responses"} /\ pc' # pc
             /\ last'.call = "obtain_tips" /\ last'.result = "Err")
             => pc' = "delay"
       /\ (pc \in {"extend_tips", "extend_tips_next", "extend_tips_responses"} /\ pc' # pc)
             => pc' \in {"extend_tips_next", "extend_tips_responses", "tips_loop"}
       /\ pc = "returned" => pc' = "returned"
      ]_vars

\* C18 witness: sync() has returned the error of the state query made for a
\* failed task of the inner loop.
C18_Witness ==
    /\ pc = "returned"
    /\ last.call = "sync"
    /\ last.site = "state_contains"
    /\ genesis_hash \in state

\* A step of obtain_tips that handles one answer of the fanout; the hashes
\* of the answer are last'.hashes (none for an error of the peer).
ObtainTipsAnswered ==
    /\ pc = "obtain_tips_responses"
    /\ requests' = requests - 1
    /\ last'.call = "obtain_tips_response"

\* C19: obtain_tips drops the last hash of a response h1..hn (n >= 3) of
\* which the state contains none: the hashes added to the download set are
\* h1..h(n-1), the only tip that may be added is {tip: h(n-2), expected_next:
\* h(n-1)}, which is added unless h(n-1) was in the download set before, and
\* hn (when it is not one of h1..h(n-1)) enters neither the download set nor
\* a new tip.
C19_LastHashDiscarded ==
    [][LET h == last'.hashes
           n == Len(last'.hashes)
       IN (ObtainTipsAnswered /\ n >= 3 /\ \A i \in 1..n : h[i] \notin state)
          => /\ download_set' = download_set \cup {h[i] : i \in 1..(n - 1)}
             /\ prospective_tips' \ prospective_tips
                   \subseteq {[tip |-> h[n - 2], expected_next |-> h[n - 1]]}
             /\ h[n - 1] \notin download_set
                   => [tip |-> h[n - 2], expected_next |-> h[n - 1]] \in prospective_tips'
             /\ h[n] \notin {h[i] : i \in 1..(n - 1)}
                   => /\ h[n] \notin download_set' \ download_set
                      /\ \A t \in prospective_tips' \ prospective_tips :
                            t.tip # h[n] /\ t.expected_next # h[n]
      ]_vars

\* C19 witness: the answer [A, B, C, unrelated] to the first query has given
\* the tip {tip: B, expected_next: C} and the download set {A, B, C}.
C19_Witness ==
    /\ pc = "obtain_tips_responses"
    /\ last.call = "obtain_tips_response"
    /\ last.hashes = <<CanonicalChain[2], CanonicalChain[3], CanonicalChain[4], UnrelatedHash>>
    /\ prospective_tips = {[tip |-> CanonicalChain[3], expected_next |-> CanonicalChain[4]]}
    /\ download_set = {CanonicalChain[2], CanonicalChain[3], CanonicalChain[4]}

\* C20 as claimed: with the last hash dropped, every hash from the first
\* one that is not in the state on is added to the download set and none
\* before it; a response whose remaining hashes are all in the state changes
\* nothing.
C20_UnknownSuffixAdded ==
    [][LET h == last'.hashes
           n == Len(last'.hashes)
           unknown == {i \in 1..(n - 1) : h[i] \notin state}
       IN (ObtainTipsAnswered /\ n >= 1)
          => IF unknown = {}
             THEN download_set' = download_set /\ prospective_tips' = prospective_tips
             ELSE LET first == CHOOSE i \in unknown : \A j \in unknown : i <= j
                  IN download_set' = download_set \cup {h[i] : i \in first..(n - 1)}
      ]_vars

\* C20 amended: the same when at least two hashes remain from the first one
\* that is not in the state on, and then the last two of them are the
\* candidate tip; when exactly one remains, or none, the response changes
\* nothing.
C20_UnknownSuffixOfTwoAdded ==
    [][LET h == last'.hashes
           n == Len(last'.hashes)
           unknown == {i \in 1..(n - 1) : h[i] \notin state}
       IN (ObtainTipsAnswered /\ n >= 1)
          => IF unknown = {}
             THEN download_set' = download_set /\ prospective_tips' = prospective_tips
             ELSE LET first == CHOOSE i \in unknown : \A j \in unknown : i <= j
                  IN IF first = n - 1
                     THEN download_set' = download_set /\ prospective_tips' = prospective_tips
                     ELSE /\ download_set' = download_set \cup {h[i] : i \in first..(n - 1)}
                          /\ h[n - 1] \notin download_set
                                => [tip |-> h[n - 2], expected_next |-> h[n - 1]]
                                      \in prospective_tips'
      ]_vars

\* C20 witness: the first hash of an answer of four is in the state; the two
\* hashes after it are the download set and the tip, and the first is not
\* downloaded.
C20_Witness ==
    /\ pc = "obtain_tips_responses"
    /\ last.call = "obtain_tips_response"
    /\ Len(last.hashes) = 4
    /\ last.hashes[1] \in state
    /\ last.hashes[2] \notin state
    /\ download_set = {last.hashes[2], last.hashes[3]}
    /\ prospective_tips = {[tip |-> last.hashes[2], expected_next |-> last.hashes[3]]}

\* C17: with perfect peers and a verifier that commits every canonical
\* block, the syncer eventually has every block of the canonical chain in the
\* state, the last blocks before the chain tip included.
C17_EventuallyCommitsAll == <>(CanonicalHashes \subseteq state)

\* A step of extend_tips that handles one answer of the fanout for the tip
\* current_tip; the hashes of the answer are last'.hashes.
ExtendTipsAnswered ==
    /\ pc = "extend_tips_responses"
    /\ requests' = requests - 1
    /\ last'.call = "extend_tips_response"

\* The position at which a response h matches the tip T in extend_tips: 1 or
\* 2 when that hash is T.expected_next, 0 when neither is.
MatchPosition(T, h) ==
    IF Len(h) >= 1 /\ h[1] = T.expected_next THEN 1
    ELSE IF Len(h) >= 2 /\ h[2] = T.expected_next THEN 2
    ELSE 0

\* The number of hashes of a response h that obtain_tips can use in the state
\* st: those from the first one that is not in st to the one before the last.
UsableInObtainTips(st, h) ==
    LET unknown == {i \in 1..(Len(h) - 1) : h[i] \notin st} IN
    IF unknown = {} THEN 0
    ELSE Len(h) - (CHOOSE i \in unknown : \A j \in unknown : i <= j)

\* The number of hashes of a response h that extend_tips can use for the tip
\* T: those after the matching position to the one before the last.
UsableInExtendTips(T, h) ==
    IF MatchPosition(T, h) = 0 \/ Len(h) - MatchPosition(T, h) < 1 THEN 0
    ELSE Len(h) - MatchPosition(T, h) - 1

\* C21: in obtain_tips and in extend_tips, a response of which fewer than two
\* hashes can be used changes neither prospective_tips nor the download set.
C21_ShortResponseDiscarded ==
    [][/\ (ObtainTipsAnswered /\ UsableInObtainTips(state, last'.hashes) < 2)
             => /\ prospective_tips' = prospective_tips
                /\ download_set' = download_set
       /\ (ExtendTipsAnswered /\ UsableInExtendTips(Unwrap(current_tip), last'.hashes) < 2)
             => /\ prospective_tips' = prospective_tips
                /\ download_set' = download_set
      ]_vars

\* C21 witness: the first answer for a tip was [expected_next, A, B]; A alone
\* is left after the match and the tail drop, and nothing was added.
C21_Witness ==
    /\ pc = "extend_tips_responses"
    /\ last.call = "extend_tips_response"
    /\ requests = FANOUT - 1
    /\ Len(last.hashes) = 3
    /\ last.hashes[1] = Unwrap(current_tip).expected_next
    /\ last.hashes[2] # Unwrap(current_tip).expected_next
    /\ prospective_tips = {}
    /\ download_set = {}

\* C22 as claimed: extend_tips ignores a response for the tip T that matches
\* T.expected_next neither with its first nor with its second hash; from a
\* response that matches it adds to the download set the hashes after the
\* matching position, the last one dropped, and no others (all of them when
\* at least two are left); and T.expected_next is never added.
C22_ExpectedNextNeverAdded ==
    [][ExtendTipsAnswered
       => LET T == Unwrap(current_tip)
              h == last'.hashes
              m == MatchPosition(Unwrap(current_tip), last'.hashes)
              used == {last'.hashes[i] : i \in (MatchPosition(Unwrap(current_tip), last'.hashes) + 1)..(Len(last'.hashes) - 1)}
          IN /\ m = 0 => /\ prospective_tips' = prospective_tips
                         /\ download_set' = download_set
             /\ m # 0 => download_set' \ download_set \subseteq used
             /\ (m # 0 /\ UsableInExtendTips(T, h) >= 2)
                   => download_set' = download_set \cup used
             /\ T.expected_next \notin download_set' \ download_set
      ]_vars

\* C22 amended: the same, and a response that matches but leaves fewer than
\* two hashes is ignored too; one that leaves at least two also makes the
\* last two of them the candidate tip; T.expected_next is added only when the
\* response repeats it after the matching position.
C22_MatchedRemainderUsed ==
    [][ExtendTipsAnswered
       => LET T == Unwrap(current_tip)
              h == last'.hashes
              n == Len(last'.hashes)
              m == MatchPosition(Unwrap(current_tip), last'.hashes)
              used == {last'.hashes[i] : i \in (MatchPosition(Unwrap(current_tip), last'.hashes) + 1)..(Len(last'.hashes) - 1)}
          IN /\ (m = 0 \/ UsableInExtendTips(T, h) < 2)
                   => /\ prospective_tips' = prospective_tips
                      /\ download_set' = download_set
             /\ (m # 0 /\ UsableInExtendTips(T, h) >= 2)
                   => /\ download_set' = download_set \cup used
                      /\ prospective_tips' \ prospective_tips
                            \subseteq {[tip |-> h[n - 2], expected_next |-> h[n - 1]]}
                      /\ h[n - 1] \notin download_set
                            => [tip |-> h[n - 2], expected_next |-> h[n - 1]] \in prospective_tips'
             /\ T.expected_next \in download_set' \ download_set
                   => \E i \in (m + 1)..(n - 1) : h[i] = T.expected_next
      ]_vars

\* C22 witness: the first answer for a tip was [X, expected_next, A, B, C]
\* with an unexpected X: A and B are the download set and the new tip.
C22_Witness ==
    /\ pc = "extend_tips_responses"
    /\ last.call = "extend_tips_response"
    /\ requests = FANOUT - 1
    /\ Len(last.hashes) = 5
    /\ last.hashes[1] # Unwrap(current_tip).expected_next
    /\ last.hashes[2] = Unwrap(current_tip).expected_next
    /\ Unwrap(current_tip).expected_next \notin {last.hashes[3], last.hashes[4]}
    /\ download_set = {last.hashes[3], last.hashes[4]}
    /\ prospective_tips = {[tip |-> last.hashes[3], expected_next |-> last.hashes[4]]}

\* C23: the prospective tips do not depend on the order in which the answers
\* of a fanout arrive: the answer just handled and any answer that comes next
\* leave the same tips when they are handled the other way round.
C23_OrderIndependent ==
    [][/\ (ObtainTipsAnswered /\ requests >= 2)
             => \A r \in AnyResponses :
                   LET other == obtain_tips_response(state, prospective_tips, download_set, r) IN
                   obtain_tips_response(state, prospective_tips', download_set', r).prospective_tips
                      = obtain_tips_response(state, other.prospective_tips, other.download_set,
                                             last'.hashes).prospective_tips
       /\ (ExtendTipsAnswered /\ requests >= 2)
             => \A r \in AnyResponses :
                   LET other == extend_tips_response(Unwrap(current_tip), prospective_tips, download_set, r) IN
                   extend_tips_response(Unwrap(current_tip), prospective_tips', download_set', r).prospective_tips
                      = extend_tips_response(Unwrap(current_tip), other.prospective_tips,
                                             other.download_set, last'.hashes).prospective_tips
      ]_vars

\* C24: an error of a peer in the fanout of obtain_tips only uses up its
\* request; an answer that is no error is used whatever failed before it;
\* with its requests all answered and nothing to download, obtain_tips returns
\* Ok without spawning a task; and when every request failed there is no
\* tip, so the tips are exhausted and sync() sleeps and restarts.
C24_PeerErrorsNotFatal ==
    [][/\ (ObtainTipsAnswered /\ last'.failed = FailedRequests + 1)
             => /\ pc' = "obtain_tips_responses"
                /\ UNCHANGED <<prospective_tips, download_set, pending_blocks>>
       /\ (ObtainTipsAnswered /\ last'.failed = FailedRequests
              /\ UsableInObtainTips(state, last'.hashes) >= 2)
             => \A i \in 1..(Len(last'.hashes) - 1) :
                   i > Len(last'.hashes) - UsableInObtainTips(state, last'.hashes)
                      => last'.hashes[i] \in download_set'
       /\ (pc = "obtain_tips_responses" /\ requests = 0 /\ FailedRequests = FANOUT)
             => /\ prospective_tips = {}
                /\ download_set = {}
       /\ (pc = "obtain_tips_responses" /\ requests = 0 /\ download_set = {} /\ pc' # pc)
             => /\ pc' = "tips_loop"
                /\ last' = [call |-> "obtain_tips", result |-> "Ok"]
                /\ UNCHANGED <<prospective_tips, pending_blocks>>
       /\ (pc = "tips_loop" /\ prospective_tips = {} /\ pc' # pc) => pc' = "delay"
       /\ (pc = "delay" /\ pc' # pc) => pc' = "sync_loop"
      ]_vars

\* C24 witness: every request of the fanout has failed, and obtain_tips is
\* about to return.
C24_Witness ==
    /\ pc = "obtain_tips_responses"
    /\ requests = 0
    /\ last.call = "obtain_tips_response"
    /\ last.failed = FANOUT
    /\ genesis_hash \in state

\* C25: when the inner loop takes a failed task whose block the state
\* contains, sync() does not restart: it goes on in the inner loop (to the
\* next ready task, or to the test of the loop), prospective_tips is
\* unchanged and pending_blocks has lost that task only.
C25_KnownBlockErrorIgnored ==
    [][(/\ pc \in TakePcs
        /\ last'.call = "task_result"
        /\ BagCardinality(pending_blocks') < BagCardinality(pending_blocks)
        /\ last'.task.result = "Err"
        /\ last'.task.hash \in state)
       => /\ pc' = (IF pc = "drain" THEN "drain" ELSE "tips_loop")
          /\ prospective_tips' = prospective_tips
          /\ pending_blocks' (+) SetToBag({last'.task}) = pending_blocks
          /\ UNCHANGED <<state, detached>>
      ]_vars

\* C25 witness: the non-blocking drain took a failed task whose block is in
\* the state, with a tip and another task held, and goes on draining.
C25_Witness ==
    /\ pc = "drain"
    /\ last.call = "task_result"
    /\ last.task.result = "Err"
    /\ last.in_state
    /\ last.task.hash \in state
    /\ prospective_tips # {}
    /\ pending_blocks # EmptyBag

\* C26: request_blocks takes the hashes of its Vec from the front, one after
\* the other. A hash the state contains when it is asked about is dropped
\* from the Vec without a task; for a hash it does not contain the readiness
\* of the network is awaited, and then exactly one task, for that hash, is
\* pushed and the hash dropped. A task is pushed in no other step. (The tasks
\* finish in any order: the witness.)
C26_DispatchedInInputOrder ==
    [][/\ BagCardinality(pending_blocks') > BagCardinality(pending_blocks)
             => /\ pc = "request_blocks_ready"
                /\ pending_blocks' = pending_blocks (+) SetToBag({[hash |-> Head(hashes_left), result |-> "running"]})
                /\ hashes_left' = Tail(hashes_left)
       /\ (hashes_left' # hashes_left /\ pc' # "request_blocks_returned")
             => /\ hashes_left' = Tail(hashes_left)
                /\ pc = "request_blocks"
                      => /\ Head(hashes_left) \in state
                         /\ pending_blocks' = pending_blocks
                /\ pc = "request_blocks_ready"
                      => BagCardinality(pending_blocks') = BagCardinality(pending_blocks) + 1
       /\ (pc = "request_blocks" /\ pc' = "request_blocks_ready")
             => /\ Head(hashes_left) \notin state
                /\ UNCHANGED <<hashes_left, pending_blocks>>
       /\ (pc = "request_blocks_ready" /\ pc' # pc)
             => pc' \in {"request_blocks", "request_blocks_returned"}
      ]_vars

\* C26 witness: request_blocks has skipped or dispatched every hash; the
\* task it pushed last has finished and one it pushed before is running.
C26_Witness ==
    /\ pc = "request_blocks"
    /\ hashes_left = <<>>
    /\ last.call = "request_blocks_hash"
    /\ last.task
    /\ \E t \in ReadyTasks : t.hash = last.hash
    /\ \E t \in RunningTasks : t.hash # last.hash

\* The hashes obtain_tips can use of a response h in the state st, and those
\* extend_tips can use for the tip T (when there are any).
UsedInObtainTips(st, h) ==
    {h[i] : i \in (Len(h) - UsableInObtainTips(st, h))..(Len(h) - 1)}
UsedInExtendTips(T, h) ==
    {h[i] : i \in (MatchPosition(T, h) + 1)..(Len(h) - 1)}

\* C27: a response of which at least two hashes can be used makes a tip of
\* the last two. When the expected_next of that tip is not in the download
\* set, the tips after the response are the tips before it whose
\* expected_next is not among the hashes used, and the new tip; else they are
\* the tips before it. The hashes used are added to the download set.
C27_NewTipSubsumes ==
    [][LET h == last'.hashes
           n == Len(last'.hashes)
           new == [tip |-> last'.hashes[Len(last'.hashes) - 2],
                   expected_next |-> last'.hashes[Len(last'.hashes) - 1]]
       IN /\ (ObtainTipsAnswered /\ UsableInObtainTips(state, h) >= 2)
                => /\ prospective_tips' =
                         IF h[n - 1] \notin download_set
                         THEN {t \in prospective_tips :
                                 t.expected_next \notin UsedInObtainTips(state, h)} \cup {new}
                         ELSE prospective_tips
                   /\ download_set' = download_set \cup UsedInObtainTips(state, h)
          /\ (ExtendTipsAnswered /\ UsableInExtendTips(Unwrap(current_tip), h) >= 2)
                => /\ prospective_tips' =
                         IF h[n - 1] \notin download_set
                         THEN {t \in prospective_tips :
                                 t.expected_next \notin UsedInExtendTips(Unwrap(current_tip), h)}
                              \cup {new}
                         ELSE prospective_tips
                   /\ download_set' = download_set \cup UsedInExtendTips(Unwrap(current_tip), h)
      ]_vars

\* C27 witness: the last answer of an obtain_tips fanout has put its tip in
\* the place of the tip of the answer before it.
C27_Witness ==
    /\ pc = "obtain_tips_responses"
    /\ requests = 0
    /\ last.call = "obtain_tips_response"
    /\ last.removed # {}
    /\ Len(last.hashes) >= 3
    /\ prospective_tips = {[tip |-> last.hashes[Len(last.hashes) - 2],
                            expected_next |-> last.hashes[Len(last.hashes) - 1]]}
    /\ \A t \in last.removed : t.expected_next \in download_set

\* C28: when a failed task makes sync() restart, prospective_tips and
\* pending_blocks are emptied first, they are empty all through the sleep,
\* and after the sleep comes the next iteration, which starts obtain_tips.
C28_ClearedBeforeSleep ==
    [][/\ (pc \in TakePcs /\ pc' = "delay")
             => (prospective_tips' = {} /\ pending_blocks' = EmptyBag)
       /\ (pc = "delay" /\ last.call = "task_result")
             => (prospective_tips = {} /\ pending_blocks = EmptyBag)
       /\ pc = "delay" => pc' \in {"delay", "sync_loop"}
       /\ pc = "sync_loop" => pc' \in {"sync_loop", "obtain_tips"}
      ]_vars

\* The steps of a running extend_tips.
ExtendTipsPcs == {"extend_tips_next", "extend_tips_responses"}

\* C29: extend_tips leaves no tip in prospective_tips before it asks a peer;
\* until it returns the only tip that enters prospective_tips with an answer
\* is the one made of the last two hashes used of that answer; it returns to
\* the test of the inner loop, and with no tip there sync() sleeps and
\* starts its next iteration.
C29_OnlyTipsOfThisCall ==
    [][/\ (pc = "extend_tips" /\ pc' # pc)
             => /\ pc' = "extend_tips_next"
                /\ prospective_tips' = {}
                /\ tips' = prospective_tips
       /\ (pc \in ExtendTipsPcs /\ prospective_tips' # prospective_tips)
             => /\ ExtendTipsAnswered
                /\ Len(last'.hashes) >= 3
                /\ prospective_tips' \ prospective_tips
                      = {[tip |-> last'.hashes[Len(last'.hashes) - 2],
                          expected_next |-> last'.hashes[Len(last'.hashes) - 1]]}
       /\ (pc \in ExtendTipsPcs /\ pc' \notin ExtendTipsPcs)
             => /\ pc' = "tips_loop"
                /\ last'.call = "extend_tips"
                /\ prospective_tips' = prospective_tips
       /\ (pc = "tips_loop" /\ last.call = "extend_tips" /\ prospective_tips = {} /\ pc' # pc)
             => pc' = "delay"
       /\ (pc = "delay" /\ last.call = "tips_loop" /\ pc' # pc) => pc' = "sync_loop"
      ]_vars

\* C29 witness: extend_tips has returned Ok and no answer has made a tip:
\* the tips it took are gone, while blocks are in the state.
C29_Witness ==
    /\ pc = "tips_loop"
    /\ last.call = "extend_tips"
    /\ last.result = "Ok"
    /\ prospective_tips = {}
    /\ Cardinality(state) >= 2

\* Some transaction input of the block spends an outpoint that is neither in
\* the UTXO index of the database nor among the new outputs of the block.
SpendsMissingUtxo(d, finalized) ==
    \E i \in DOMAIN finalized.verified.block.transactions :
       \E j \in DOMAIN finalized.verified.block.transactions[i].inputs :
          LET o == finalized.verified.block.transactions[i].inputs[j].outpoint IN
          /\ IsSome(o)
          /\ ~IsSome(utxo(d, Unwrap(o)))
          /\ Unwrap(o) \notin DOMAIN finalized.verified.new_outputs

\* The block is a genesis block supplied with a sprout, sapling or orchard
\* tree that is not the empty tree.
GenesisWithNonEmptyTree(finalized) ==
    /\ finalized.verified.block.header.previous_block_hash = GENESIS_PREVIOUS_BLOCK_HASH
    /\ \E pool \in {"sprout", "sapling", "orchard"} :
          finalized.treestate.note_commitment_trees[pool] # EmptyTree

\* C30: a write_block call whose block spends an outpoint found neither in the
\* UTXO index nor among the block's new outputs, or whose block is a genesis
\* block supplied with a non-empty sprout, sapling or orchard tree, panics and
\* leaves the database as it was.
C30_PanicBeforeAnythingIsWritten ==
    [][(/\ last'.call = "write_block"
        /\ \/ SpendsMissingUtxo(db, last'.finalized)
           \/ GenesisWithNonEmptyTree(last'.finalized))
       => /\ last'.status = "Panic"
          /\ db' = db
          /\ committed' = committed]_vars

\* C30 happens: on a database that holds blocks, a call with a block spending
\* a missing outpoint panicked, and so did, before staging ended, a call with
\* a genesis block whose trees were not empty.
C30_Witness ==
    /\ last.call = "write_block"
    /\ last.status = "Panic"
    /\ ~is_empty(db)
    /\ \/ SpendsMissingUtxo(db, last.finalized)
       \/ GenesisWithNonEmptyTree(last.finalized) /\ last.staged = "Panic"

\* The outpoints the inputs of the transactions of a block spend.
SpentBy(verified) ==
    {verified.block.transactions[i].inputs[j].outpoint[1] :
        <<i, j>> \in {p \in (DOMAIN verified.block.transactions) \X (1..max_allocation) :
                        /\ p[2] \in DOMAIN verified.block.transactions[p[1]].inputs
                        /\ verified.block.transactions[p[1]].inputs[p[2]].outpoint # None}}

\* Where write_block finds a spent outpoint: at the location the database has
\* for it, else at this block's height, the index of the outpoint's
\* transaction hash within this block, and the outpoint's output index.
ResolvedLocation(d, verified, o) ==
    IF o \in DOMAIN d["out_loc_by_outpoint"]
    THEN d["out_loc_by_outpoint"][o]
    ELSE [transaction_location |->
             [height |-> verified.height,
              index |-> (CHOOSE i \in DOMAIN verified.transaction_hashes :
                            verified.transaction_hashes[i] = o.hash) - 1],
          output_index |-> o.index]

\* The UTXO write_block spends for an outpoint: the one the database has for
\* it, else the one among this block's new outputs.
ResolvedUtxo(d, verified, o) ==
    IF o \in DOMAIN d["out_loc_by_outpoint"]
          /\ d["out_loc_by_outpoint"][o] \in DOMAIN d["utxo_by_out_loc"]
    THEN d["utxo_by_out_loc"][d["out_loc_by_outpoint"][o]]
    ELSE verified.new_outputs[o].utxo

\* The stored balance of an address (zero when it has none).
BalanceOf(d, a) ==
    IF a \in DOMAIN d["balance_by_address"] THEN d["balance_by_address"][a].balance ELSE 0

\* What the new outputs of a block pay to an address, and what the outpoints
\* it spends held for the address.
PaidTo(verified, a) ==
    LET os == {o \in DOMAIN verified.new_outputs :
                  verified.new_outputs[o].utxo.output.address = a}
    IN SumSeq([i \in 1..Cardinality(os) |->
                  verified.new_outputs[SeqOf(os)[i]].utxo.output.value])
SpentFrom(d, verified, a) ==
    LET os == {o \in SpentBy(verified) : ResolvedUtxo(d, verified, o).output.address = a}
    IN SumSeq([i \in 1..Cardinality(os) |->
                  ResolvedUtxo(d, verified, SeqOf(os)[i]).output.value])

\* C31: a committed block after genesis removes, for every outpoint it spends,
\* the UTXO at the stored location when the database has one, and at (block
\* height, index of the transaction in the block, output index) only when it
\* has none; every balance grows by what the new outputs pay to the address
\* and shrinks by what the resolved UTXOs held, so an output created and spent
\* in the block counts on both sides.
C31_SpentOutputsResolved ==
    [][(/\ last'.call = "write_block"
        /\ last'.status = "Ok"
        /\ last'.finalized.verified.block.header.previous_block_hash
              # GENESIS_PREVIOUS_BLOCK_HASH)
       => LET verified == last'.finalized.verified IN
          /\ \A o \in SpentBy(verified) :
                /\ ResolvedLocation(db, verified, o) \notin DOMAIN db'["utxo_by_out_loc"]
                /\ o \notin DOMAIN db'["out_loc_by_outpoint"]
          /\ \A a \in Range(Miners) :
                BalanceOf(db', a)
                   = BalanceOf(db, a) + PaidTo(verified, a) - SpentFrom(db, verified, a)]_vars

\* C31 happens: the block committed last has a transaction that spends an
\* output of an earlier transaction of the same block, and another input that
\* spends an output the database held.
C31_Witness ==
    /\ last.call = "write_block"
    /\ last.status = "Ok"
    /\ \E o \in SpentBy(last.finalized.verified) :
          /\ o \in DOMAIN last.finalized.verified.new_outputs
          /\ o \in SpentOutPoints
          /\ ~IsSome(utxo(db, o))
    /\ \E o \in SpentBy(last.finalized.verified) :
          o \notin DOMAIN last.finalized.verified.new_outputs

\* The column families prepare_block_batch stages for a genesis block, and
\* the ones it stages only for other blocks.
GenesisColumnFamilies ==
    {"block_header_by_height", "hash_by_height", "height_by_hash",
     "tx_by_loc", "hash_by_tx_loc", "tx_loc_by_hash",
     "sprout_note_commitment_tree", "sapling_note_commitment_tree",
     "orchard_note_commitment_tree"}
OtherColumnFamilies ==
    {"utxo_by_out_loc", "out_loc_by_outpoint", "balance_by_address", "value_pool"}

\* The header, the indexes, the transactions and the three trees of the block
\* are stored by the step.
HeaderAndTreesStored(d, finalized) ==
    LET verified == finalized.verified IN
    /\ zs_get(d["block_header_by_height"], verified.height) = Some(verified.block.header)
    /\ zs_get(d["hash_by_height"], verified.height) = Some(verified.hash)
    /\ zs_get(d["height_by_hash"], verified.hash) = Some(verified.height)
    /\ \A i \in DOMAIN verified.block.transactions :
          zs_get(d["tx_by_loc"], [height |-> verified.height, index |-> i - 1])
             = Some(verified.block.transactions[i])
    /\ \A pool \in {"sprout", "sapling", "orchard"} :
          zs_get(d[pool \o "_note_commitment_tree"], verified.height)
             = Some(finalized.treestate.note_commitment_trees[pool])

\* C32: a committed block whose parent hash is the pre-genesis hash changes
\* only the header, index, transaction and tree column families, whatever its
\* height and whatever the database held; a committed block with any other
\* parent hash also has its unspent new outputs, their balances and the value
\* pool stored, even at height 0 of an empty database.
C32_GenesisPathByParentHash ==
    [][(last'.call = "write_block" /\ last'.status = "Ok")
       => LET finalized == last'.finalized
              verified == finalized.verified
          IN /\ HeaderAndTreesStored(db', finalized)
             /\ IF verified.block.header.previous_block_hash = GENESIS_PREVIOUS_BLOCK_HASH
                THEN \A cf \in OtherColumnFamilies : db'[cf] = db[cf]
                ELSE /\ \A o \in DOMAIN verified.new_outputs \ SpentBy(verified) :
                           /\ o \in DOMAIN db'["out_loc_by_outpoint"]
                           /\ db'["out_loc_by_outpoint"][o] \in DOMAIN db'["utxo_by_out_loc"]
                           /\ verified.new_outputs[o].utxo.output.address
                                 \in DOMAIN db'["balance_by_address"]
                     /\ ValuePoolKey \in DOMAIN db'["value_pool"]]_vars

\* C32 happens: a block with the pre-genesis parent hash and an output of
\* value was committed above height 0 on a database that held blocks, and
\* its output is not indexed.
C32_Witness ==
    /\ last.call = "write_block"
    /\ last.status = "Ok"
    /\ last.finalized.verified.block.header.previous_block_hash = GENESIS_PREVIOUS_BLOCK_HASH
    /\ last.finalized.verified.height > 1
    /\ \E o \in DOMAIN last.finalized.verified.new_outputs :
          /\ last.finalized.verified.new_outputs[o].utxo.output.value > 0
          /\ o \notin DOMAIN db["out_loc_by_outpoint"]

\* C33: whenever request_genesis awaits pending_blocks after request_blocks,
\* and whenever the lookahead wait of sync() awaits it, pending_blocks holds
\* a task, so neither expect() panics.
C33_WaitFindsTask ==
    /\ pc = "genesis_wait" => pending_blocks # EmptyBag
    /\ pc = "wait_one" => pending_blocks # EmptyBag
    /\ pc # "panicked"

\* A hash is in the state, or a task spawned for it since the last wipe is
\* pending. (A task spawned since the wipe that is no longer pending was taken
\* by the loop: its block is in the state, or sync() left the inner loop.)
InStateOrRequested(h) ==
    \/ state_contains(state, h)
    \/ \E t \in BagToSet(pending_blocks) : t.hash = h

\* C34: whenever the inner loop of sync() tests prospective_tips, the tip and
\* the expected_next of every prospective tip are in the state or have a
\* task spawned since the last wipe.
C34_TipsAreRequested ==
    pc = "tips_loop"
       => \A t \in prospective_tips :
             InStateOrRequested(t.tip) /\ InStateOrRequested(t.expected_next)

\* C35: no two distinct prospective tips have the same expected_next.
C35_DistinctExpectedNext ==
    \A a \in prospective_tips : \A b \in prospective_tips :
       a.expected_next = b.expected_next => a = b

\* C35 happens: the response handled last ends (before its final hash) with
\* two unknown hashes of which the second is the expected_next of a
\* prospective tip with another tip hash: the candidate was not added.
C35_Witness ==
    /\ last.call = "obtain_tips_response"
    /\ Len(last.hashes) >= 3
    /\ last.hashes[Len(last.hashes) - 2] \notin state
    /\ \E t \in prospective_tips :
          /\ t.expected_next = last.hashes[Len(last.hashes) - 1]
          /\ t.tip # last.hashes[Len(last.hashes) - 2]

\* C36: the wipe leaves no task in pending_blocks; a task enters
\* pending_blocks only when it is spawned, and changes there only by finishing;
\* the task whose result the syncer handles was pending, hence spawned after
\* the wipe, and only such a result sends sync() to the restart delay or makes
\* it return from the inner loop; a commit by a task whose handle was dropped
\* changes nothing the syncer holds; and obtain_tips asks with the block
\* locator of the state as it is then.
C36_OldResultsNotDelivered ==
    [][/\ (pc = "sync_loop" /\ pc' = "obtain_tips") => pending_blocks' = EmptyBag
       /\ \A t \in BagToSet(pending_blocks') :
             CopiesIn(t, pending_blocks') > CopiesIn(t, pending_blocks)
                => \/ t.result = "running"
                   \/ CopiesIn(Task(t.hash, "running"), pending_blocks')
                         < CopiesIn(Task(t.hash, "running"), pending_blocks)
       /\ (pc \in {"drain", "wait_one"} /\ pc' \in {"delay", "returned"})
             => \E t \in BagToSet(pending_blocks) :
                   /\ t.result = "Err"
                   /\ CopiesIn(t, pending_blocks') < CopiesIn(t, pending_blocks)
       /\ (detached' # detached /\ pc # "sync_loop")
             => /\ pc' = pc
                /\ last' = last
                /\ prospective_tips' = prospective_tips
       /\ (pc = "obtain_tips" /\ pc' = "obtain_tips_responses")
             => known_blocks' = block_locator(state)]_vars

\* C36 happens: a later run of the sync asks the peers for tips, anchored on
\* a state that has grown since the start, while tasks whose handles the wipe
\* dropped are still running.
C36_Witness ==
    /\ pc = "obtain_tips_responses"
    /\ detached # {}
    /\ Cardinality(state) > 1
    /\ pending_blocks = EmptyBag
    /\ known_blocks = block_locator(state)

====
